---- MODULE Spec2Model ----
(***************************************************************************)
(* A model of wasmbox: the translator of src/src/wasmbox.c (Wasm function  *)
(* bodies lowered to register code), the interpreter loop                  *)
(* (wasmbox_eval_function / wasmbox_eval_module) and the runtime memory    *)
(* operations.                                                             *)
(*                                                                         *)
(* A stack cell (wasmbox_value_t, a 64-bit union) is a tuple of 8 bytes,   *)
(* least significant first, so that the .u32/.f32 views are bytes 1..4 and *)
(* the .u64/.f64 views are bytes 1..8.  Pointers kept in cells (the saved  *)
(* frame pointer and the saved code pointer) are small numbers: the        *)
(* address of slab slot i is StackAddr(i), the address of instruction k of *)
(* function f is CodeAddr(f, k).                                           *)
(***************************************************************************)
EXTENDS Integers, Sequences, FiniteSets, TLC

VARIABLES
    wasm,     \* the input module: function declarations with Wasm bodies
    mod,      \* wasmbox_module_t: functions (type, name, lowered code)
    stack,    \* the caller-supplied slab, wasmbox_value_t stack[]
    fp,       \* the interpreter's `stack` pointer, as a slab index
    pc,       \* the interpreter's `code` pointer, as a code address
    status,   \* where the host program is: "file", "loaded", "run", ...
    result,   \* the value wasmbox_eval_module returned (NoResult before)
    build,    \* what the build makes of the undefined shift of leb128.c
    host,     \* the run the host set up: its module and its arguments
    memory,   \* mod->memory_block_size / _capacity, in pages, and whether
              \* a memory is declared (mod->memory_block != NULL)
    grown,    \* history: the operand and the outcome of the last MEMORY_GROW
    calls,    \* history: the STATIC_CALLs dispatched and not yet returned
    lastret   \* history: what the last RETURN restored, and what was due

vars == <<wasm, mod, stack, fp, pc, status, result, build, host, memory, grown,
          calls, lastret>>

-----------------------------------------------------------------------------
(* Bounds of the model *)

CodeStride == 32         \* code addresses kept apart for each function
StackBase == 4096        \* the address of slab slot 0
MaxArg == 3              \* factorial is run for x in 1..MaxArg
MaxGrows == 2            \* memory.grow instructions of a memory program
MaxSections == 2         \* sections of a file put together from SectionKinds
MaxLabels == 2           \* labels of a jump table
MaxCalls == 2            \* calls of the function that holds a DYNAMIC_CALL
MaxPad == 1              \* bytes of a buffer in front of and behind an encoding
MaxCode == 32740         \* instructions added to one function

(* Program constants *)

WASMBOX_FUNCTION_CALL_OFFSET == 2
StackSize == 1024        \* wasmbox_value_t stack[1024] of the host

-----------------------------------------------------------------------------
(* Cells and bytes *)

Byte == 0..255

ZeroCell == <<0, 0, 0, 0, 0, 0, 0, 0>>

\* The cell holding the number n (0 <= n < 2^31) as u64.
CellOfNat(n) ==
    [i \in 1..8 |-> IF i > 4 THEN 0 ELSE (n \div (256 ^ (i - 1))) % 256]

\* The cell holding the 32-bit two's complement of n (-2^24 < n < 2^24) in
\* .s32, upper half zero.
CellOfS32(n) ==
    IF n >= 0 THEN CellOfNat(n)
    ELSE LET m == (16777216 + n)       \* low 24 bits of n
         IN  <<m % 256, (m \div 256) % 256, (m \div 65536) % 256, 255,
               0, 0, 0, 0>>

\* A cell read as a pointer-sized number; -1 when it is not one of the small
\* numbers the model uses for addresses.
NatOfCell(c) ==
    IF c[3] = 0 /\ c[4] = 0 /\ c[5] = 0 /\ c[6] = 0 /\ c[7] = 0 /\ c[8] = 0
    THEN c[1] + 256 * c[2]
    ELSE -1

\* dst with its low w bytes replaced by the low w bytes of src: an
\* assignment through the .u8/.u16/.u32/.f32 (w = 1, 2, 4) or .u64/.f64
\* (w = 8) member of the union.
SetLow(dst, src, w) == [i \in 1..8 |-> IF i <= w THEN src[i] ELSE dst[i]]

Low(c, w) == [i \in 1..w |-> c[i]]


-----------------------------------------------------------------------------
(* 64-bit integers of the LEB128 decoders: the set of the bit positions    *)
(* that are 1 (bit 0 is the least significant).                            *)

BitsOfByte(v) == {j \in 0..7 : (v \div (2 ^ j)) % 2 = 1}

Bit(S, k) == IF k \in S THEN 1 ELSE 0

ByteOfBits(S, b) ==
    Bit(S, b) + 2 * Bit(S, b + 1) + 4 * Bit(S, b + 2) + 8 * Bit(S, b + 3)
    + 16 * Bit(S, b + 4) + 32 * Bit(S, b + 5) + 64 * Bit(S, b + 6)
    + 128 * Bit(S, b + 7)

CellOfBits(S) == [i \in 1..8 |-> ByteOfBits(S, 8 * (i - 1))]

BitsOfCell(c) == UNION {{8 * (i - 1) + j : j \in BitsOfByte(c[i])} : i \in 1..8}

\* x << n in a 64-bit integer.
ShiftLeft64(S, n) == {j + n : j \in S} \cap (0..63)

\* What the build makes of `~0 << shift`, an int shifted by `shift`, then
\* converted to wasm_s64_t.  For shift < 32 it is -1 << shift, sign-extended.
\* For shift >= 32 the shift is undefined: "wrap" is the outcome of a target
\* that takes the count modulo 32 (x86, ARM64), "zero" the outcome of a target
\* that shifts every bit out, "wide" the outcome of a build that does the
\* shift in a 64-bit register.
UndefinedShiftOutcomes == {"wrap", "zero", "wide"}

AllOnesShifted(shift, outcome) ==
    IF shift < 32 \/ outcome = "wide" THEN shift..63
    ELSE IF outcome = "wrap" THEN (shift % 32)..63
    ELSE {}

\* *p++ : the byte at position k (from 0) of the bytes p points at.
ByteAt(p, k) == IF k + 1 <= Len(p) THEN p[k + 1] ELSE 0

RECURSIVE SignedLebLoop(_, _, _, _, _, _)
SignedLebLoop(p, k, idx, len, res, shift) ==
    LET v  == ByteAt(p, k)
        r2 == res \cup ShiftLeft64(BitsOfByte(v % 128), shift)
    IN  IF v >= 128 /\ idx + 1 < len
        THEN SignedLebLoop(p, k + 1, idx + 1, len, r2, shift + 7)
        ELSE [res |-> r2, idx |-> idx + 1, shift |-> shift + 7, v |-> v]

\* wasmbox_parse_signed_leb128(p, &idx, len): the integer returned (as bits)
\* and the cursor it leaves.
wasmbox_parse_signed_leb128(p, idx, len, outcome) ==
    LET l == SignedLebLoop(p, 0, idx, len, {}, 0)
    IN  [result |-> IF l.shift < 64 /\ (l.v \div 64) % 2 = 1
                    THEN l.res \cup AllOnesShifted(l.shift, outcome)
                    ELSE l.res,
         idx |-> l.idx]

RECURSIVE UnsignedLebLoop(_, _, _, _, _, _)
UnsignedLebLoop(p, k, idx, len, res, shift) ==
    IF idx <= len
    THEN LET v  == ByteAt(p, k)
             r2 == res \cup ShiftLeft64(BitsOfByte(v % 128), shift)
         IN  IF v < 128 THEN [res |-> r2, idx |-> idx + 1]
             ELSE UnsignedLebLoop(p, k + 1, idx + 1, len, r2, shift + 7)
    ELSE [res |-> res, idx |-> idx]

\* The decoder with a 32-bit accumulator
ParseUnsignedLebNarrow(p, idx, len) ==
    LET l == UnsignedLebLoop(p, 0, idx, len, {}, 0)
    IN  [result |-> l.res \cap (0..31), idx |-> l.idx]

\* wasmbox_parse_unsigned_leb128(p, &idx, len).
wasmbox_parse_unsigned_leb128(p, idx, len) ==
    LET l == UnsignedLebLoop(p, 0, idx, len, {}, 0)
    IN  [result |-> l.res, idx |-> l.idx]

-----------------------------------------------------------------------------
(* The translator (src/src/wasmbox.c).                                     *)
(*                                                                         *)
(* A Wasm function body is a sequence of tokens [k, x, op, bytes]: k the   *)
(* instruction, x its index immediate, op the VM opcode of a numeric       *)
(* instruction, bytes the encoded immediate of a const.  A VM instruction  *)
(* (wasmbox_code_t) is [op, op0, op1, op2, value]; op1 of a STATIC_CALL is *)
(* the index of the callee in mod->functions.                              *)

NoOperand == 0 - 1000     \* an operand field the translator did not assign

Tok(k, x, op, bytes) == [k |-> k, x |-> x, op |-> op, bytes |-> bytes]

Code(op, op0, op1, op2, value) ==
    [op |-> op, op0 |-> op0, op1 |-> op1, op2 |-> op2, value |-> value]

\* wasmbox_code_add: the instruction is stored at code[code_size++].  The
\* block behind func->code, its capacity and what realloc does to it are in
\* CodeAdd; the functions of the modules translated here are short, and the
\* translation is the one of a run in which the block has room.
wasmbox_code_add(func, code) == [func EXCEPT !.code = Append(@, code)]

wasmbox_code_add_const(func, vmopcode, v) ==
    wasmbox_code_add([func EXCEPT !.stack_top = @ + 1],
                     Code(vmopcode, func.stack_top, NoOperand, NoOperand, v))

\* wasmbox_code_add_variable: op0 is a new slot for every opcode, op1 the
\* index (of the global, or of the local past the call offset).
wasmbox_code_add_variable(func, vmopcode, index) ==
    wasmbox_code_add([func EXCEPT !.stack_top = @ + 1],
                     Code(vmopcode, func.stack_top,
                          IF vmopcode \in {"GLOBAL_GET", "GLOBAL_SET"} THEN index
                          ELSE WASMBOX_FUNCTION_CALL_OFFSET + index,
                          NoOperand, ZeroCell))

wasmbox_code_add_binary_op(func, vmopcode) ==
    wasmbox_code_add([func EXCEPT !.stack_top = @ + 1],
                     Code(vmopcode, func.stack_top, func.stack_top - 2,
                          func.stack_top - 1, ZeroCell))

wasmbox_code_add_move(func, from, to) ==
    wasmbox_code_add(func, Code("MOVE", to, from, NoOperand, ZeroCell))

\* parse_i32_const .. parse_f64_const: the wasmbox_value_t handed to
\* wasmbox_code_add_const.  The integer constants are SLEB128, stored through
\* .s32 or .s64; the float constants are the raw 4 or 8 bytes.  Bytes of v
\* that the parser does not assign are never read by the LOAD_CONST of the
\* same type.
parse_const(k, bytes, outcome) ==
    LET leb == wasmbox_parse_signed_leb128(bytes, 0, Len(bytes) + 1, outcome)
    IN  CASE k = "i32.const" -> SetLow(ZeroCell, CellOfBits(leb.result), 4)
          [] k = "i64.const" -> CellOfBits(leb.result)
          [] k = "f32.const" -> SetLow(ZeroCell, [i \in 1..8 |-> ByteAt(bytes, i - 1)], 4)
          [] OTHER           -> [i \in 1..8 |-> ByteAt(bytes, i - 1)]

ConstOpcode(k) ==
    CASE k = "i32.const" -> "LOAD_CONST_I32"
      [] k = "i64.const" -> "LOAD_CONST_I64"
      [] k = "f32.const" -> "LOAD_CONST_F32"
      [] OTHER           -> "LOAD_CONST_F64"

decode_constant_inst(func, tok, outcome) ==
    wasmbox_code_add_const(func, ConstOpcode(tok.k),
                           parse_const(tok.k, tok.bytes, outcome))

\* decode_variable_inst: local.get, local.set, global.get and global.set.
decode_variable_inst(func, tok) ==
    CASE tok.k = "local.get" ->
            wasmbox_code_add_move([func EXCEPT !.stack_top = @ + 1],
                                  WASMBOX_FUNCTION_CALL_OFFSET + tok.x,
                                  func.stack_top)
      [] tok.k = "global.get" -> wasmbox_code_add_variable(func, "GLOBAL_GET", tok.x)
      [] tok.k = "global.set" -> wasmbox_code_add_variable(func, "GLOBAL_SET", tok.x)
      [] OTHER ->
            wasmbox_code_add_move(func, func.stack_top - 1,
                                  WASMBOX_FUNCTION_CALL_OFFSET + tok.x)

\* The argument moves of decode_call: MOVE(argument_from - i, argument_to + i)
\* for i = 0 .. argument_size - 1.
RECURSIVE CallMoves(_, _, _, _, _)
CallMoves(func, argument_from, argument_to, i, n) ==
    IF i >= n THEN func
    ELSE CallMoves(wasmbox_code_add_move(func, argument_from - i, argument_to + i),
                   argument_from, argument_to, i + 1, n)

\* decode_call: `types` gives the type of every function of the module
\* (mod->functions[funcidx]->type, known from the function section).
decode_call(func, tok, types) ==
    LET call          == types[tok.x + 1]
        argument_from == func.stack_top - call.argument_size
        argument_to   == func.stack_top + call.return_size
                         + WASMBOX_FUNCTION_CALL_OFFSET
        moved         == CallMoves(func, argument_from, argument_to, 0,
                                   call.argument_size)
    IN  wasmbox_code_add([moved EXCEPT !.stack_top = @ + call.return_size],
                         Code("STATIC_CALL", func.stack_top, tok.x, NoOperand,
                              ZeroCell))

\* decode_block_end: the function-level `end`.
decode_block_end(func) ==
    wasmbox_code_add(wasmbox_code_add_move(func, func.stack_top - 1, 0 - 1),
                     Code("RETURN", NoOperand, NoOperand, NoOperand, ZeroCell))

\* decode_op0_inst: unreachable, nop, drop and select emit nothing; every
\* numeric instruction, unary or binary, goes through
\* wasmbox_code_add_binary_op.
decode_op0_inst(func, tok) ==
    IF tok.k = "numeric" THEN wasmbox_code_add_binary_op(func, tok.op) ELSE func

\* decode_memory_inst: the offset of the memarg is the only address operand
\* of the instruction emitted.  A load (wasmbox_code_add_load) takes a new
\* slot for its result; a store (wasmbox_code_add_store) reads the top slot
\* and leaves stack_top alone.
decode_memory_inst(func, tok) ==
    IF tok.k = "load"
    THEN wasmbox_code_add([func EXCEPT !.stack_top = @ + 1],
                          Code(tok.op, func.stack_top, tok.x, NoOperand, ZeroCell))
    ELSE wasmbox_code_add(func, Code(tok.op, tok.x, func.stack_top - 1,
                                     NoOperand, ZeroCell))

\* decode_memory_size_and_grow: both instructions are given
\* code.h.opcode = OPCODE_MEMORY_SIZE; memory.grow also sets op1 to the top
\* slot, memory.size leaves op1 unassigned.  op0 is a new slot.
decode_memory_size_and_grow(func, tok) ==
    wasmbox_code_add([func EXCEPT !.stack_top = @ + 1],
                     Code("MEMORY_SIZE", func.stack_top,
                          IF tok.k = "memory.grow" THEN func.stack_top - 1
                          ELSE NoOperand,
                          NoOperand, ZeroCell))

\* decode_br, decode_br_if, decode_br_table, decode_return and
\* decode_call_indirect read their immediates and emit nothing.
decode_br(func, tok) == func

NoCodeTokens == {"br", "br_if", "br_table", "return", "call_indirect"}

\* The parser state: the function being built, the position of the next
\* token, and whether a decoder has failed.
PState(func, i, err) == [func |-> func, i |-> i, err |-> err]

RECURSIVE parse_instruction(_, _, _), parse_expression(_, _, _), decode_if(_, _, _)

\* parse_expression, the body of decode_block: instructions up to the
\* matching `end`, which it consumes.
parse_expression(st, toks, env) ==
    IF st.err \/ st.i > Len(toks) THEN [st EXCEPT !.err = TRUE]
    ELSE IF toks[st.i].k = "end" THEN [st EXCEPT !.i = @ + 1]
    ELSE parse_expression(parse_instruction(st, toks, env), toks, env)

\* The loop of decode_if: `else` is skipped, `end` ends the loop.
decode_if(st, toks, env) ==
    IF st.err \/ st.i > Len(toks) THEN [st EXCEPT !.err = TRUE]
    ELSE IF toks[st.i].k = "end" THEN [st EXCEPT !.i = @ + 1]
    ELSE IF toks[st.i].k = "else" THEN decode_if([st EXCEPT !.i = @ + 1], toks, env)
    ELSE decode_if(parse_instruction(st, toks, env), toks, env)

\* parse_instruction: read one opcode and run its decoder.
parse_instruction(st, toks, env) ==
    LET tok  == toks[st.i]
        next == [st EXCEPT !.i = @ + 1]
        emit(f) == [next EXCEPT !.func = f]
    IN  CASE tok.k \in {"block", "loop"} -> parse_expression(next, toks, env)
          [] tok.k = "if" -> decode_if(next, toks, env)
          [] tok.k = "end" -> emit(decode_block_end(st.func))
          [] tok.k \in NoCodeTokens -> emit(decode_br(st.func, tok))
          [] tok.k = "call" -> emit(decode_call(st.func, tok, env.types))
          [] tok.k \in {"local.get", "local.set", "global.get", "global.set"} ->
                emit(decode_variable_inst(st.func, tok))
          [] tok.k \in {"i32.const", "i64.const", "f32.const", "f64.const"} ->
                emit(decode_constant_inst(st.func, tok, env.outcome))
          [] tok.k \in {"numeric", "unreachable", "nop", "drop", "select"} ->
                emit(decode_op0_inst(st.func, tok))
          [] tok.k \in {"load", "store"} ->
                emit(decode_memory_inst(st.func, tok))
          [] tok.k \in {"memory.size", "memory.grow"} ->
                emit(decode_memory_size_and_grow(st.func, tok))
          [] OTHER -> [next EXCEPT !.err = TRUE]

\* parse_code: instructions until the end of the body.
RECURSIVE parse_code(_, _, _)
parse_code(st, toks, env) ==
    IF st.err \/ st.i > Len(toks) THEN st
    ELSE parse_code(parse_instruction(st, toks, env), toks, env)

\* parse_function_section, parse_export_entry, parse_local_variables and
\* parse_function for one declaration d = [args, rets, name, locals, body] of
\* the input: stack_top starts at FUNCTION_CALL_OFFSET + argument_size and is
\* advanced past the locals.
TypeOf(d) == [argument_size |-> d.args, return_size |-> d.rets]

parse_function(d, env) ==
    LET func == [code |-> <<>>, type |-> TypeOf(d), name |-> d.name,
                 locals |-> d.locals,
                 stack_top |-> WASMBOX_FUNCTION_CALL_OFFSET + d.args + d.locals]
    IN  parse_code(PState(func, 1, FALSE), d.body, env)

\* parse_module: every function of the input, lowered.
parse_module(w, outcome) ==
    LET env == [types |-> [f \in 1..Len(w) |-> TypeOf(w[f])], outcome |-> outcome]
        sts == [f \in 1..Len(w) |-> parse_function(w[f], env)]
    IN  [functions |-> [f \in 1..Len(w) |-> sts[f].func],
         parsed    |-> IF \E f \in 1..Len(w) : sts[f].err THEN 0 - 1 ELSE 0]

-----------------------------------------------------------------------------
(* Input modules *)

NoName == <<0 - 1>>                          \* func->name == NULL
StartName == <<95, 115, 116, 97, 114, 116>>  \* "_start"

Fn(args, rets, name, locals, body) ==
    [args |-> args, rets |-> rets, name |-> name, locals |-> locals, body |-> body]

T0(k) == Tok(k, 0, "", <<>>)
TX(k, x) == Tok(k, x, "", <<>>)
TNum(op) == Tok("numeric", 0, op, <<>>)
TConst(k, bytes) == Tok(k, 0, "", bytes)

\* test/wasm/factorial.c: _start(x) = x <= 1 ? 1 : _start(x - 1) * x.
FactorialBody ==
    << TX("local.get", 0), TConst("i32.const", <<1>>), TNum("I32_LE_S"),
       T0("if"),
           TConst("i32.const", <<1>>),
       T0("else"),
           TX("local.get", 0), TConst("i32.const", <<1>>), TNum("I32_SUB"),
           TX("call", 0),
           TX("local.get", 0), TNum("I32_MUL"),
       T0("end"),
       T0("end") >>

FactorialModule == << Fn(1, 1, StartName, 0, FactorialBody) >>

-----------------------------------------------------------------------------
(* 32-bit arithmetic on the low four bytes of a cell *)

\* a + b + c (mod 2^32), a and b sequences of 4 bytes, c a carry of 0 or 1.
Add32(a, b, c) ==
    LET s1 == a[1] + b[1] + c
        s2 == a[2] + b[2] + s1 \div 256
        s3 == a[3] + b[3] + s2 \div 256
        s4 == a[4] + b[4] + s3 \div 256
    IN  <<s1 % 256, s2 % 256, s3 % 256, s4 % 256>>

Not32(a) == [i \in 1..4 |-> 255 - a[i]]

Sub32(a, b) == Add32(a, Not32(b), 1)

\* a * b (mod 2^32).
Mul32(a, b) ==
    LET c1 == a[1] * b[1]
        c2 == a[1] * b[2] + a[2] * b[1] + c1 \div 256
        c3 == a[1] * b[3] + a[2] * b[2] + a[3] * b[1] + c2 \div 256
        c4 == a[1] * b[4] + a[2] * b[3] + a[3] * b[2] + a[4] * b[1] + c3 \div 256
    IN  <<c1 % 256, c2 % 256, c3 % 256, c4 % 256>>

\* a < b as unsigned 32-bit numbers.
LtU32(a, b) ==
    \E i \in 1..4 : a[i] < b[i] /\ \A j \in (i + 1)..4 : a[j] = b[j]

\* a <= b as signed 32-bit numbers.
LeS32(a, b) ==
    LET na == a[4] >= 128
        nb == b[4] >= 128
    IN  IF na # nb THEN na ELSE a = b \/ LtU32(a, b)

Bool32(t) == IF t THEN <<1, 0, 0, 0>> ELSE <<0, 0, 0, 0>>

\* The ARITHMETIC_OP handlers of the model: the 4 result bytes.
Arith32(op, a, b) ==
    CASE op = "I32_SUB"  -> Sub32(a, b)
      [] op = "I32_MUL"  -> Mul32(a, b)
      [] op = "I32_ADD"  -> Add32(a, b, 0)
      [] OTHER           -> Bool32(LeS32(a, b))

ArithOps == {"I32_SUB", "I32_MUL", "I32_ADD", "I32_LE_S"}

\* ARITHMETIC_OP(s32, /), (u32, /), (s32, %), (u32, %): the handlers whose C
\* operator is undefined for some operands.
DivOps == {"I32_DIV_S", "I32_DIV_U", "I32_REM_S", "I32_REM_U"}

\* The C expressions a / b and a % b on the .s32 or .u32 members (4 bytes
\* each): the quotient truncated towards zero, the remainder a - (a / b) * b.
\* `undefined` tells whether C leaves the expression undefined: b = 0, or
\* the signed INT_MIN / -1 and INT_MIN % -1.  For those operands `value` is
\* what a target without a divide trap (ARM64 sdiv/udiv and msub) leaves in
\* the register: quotient 0 for b = 0, INT_MIN for INT_MIN / -1.
Div32(op, a, b) ==
    LET signed  == op \in {"I32_DIV_S", "I32_REM_S"}
        IntMin  == <<0, 0, 0, 128>>
        S32(v)  == v[1] + 256 * v[2] + 65536 * v[3]
                   + 16777216 * (v[4] - (IF v[4] >= 128 THEN 256 ELSE 0))
        Bytes(n) == <<n % 256, (n \div 256) % 256, (n \div 65536) % 256,
                      (n \div 16777216) % 256>>
        \* x / p truncated towards zero, for p > 0
        Trunc(x, p) == IF x < 0 /\ x % p # 0 THEN (x \div p) + 1 ELSE x \div p
        undefined == b = <<0, 0, 0, 0>> \/ (signed /\ a = IntMin /\ b = <<255, 255, 255, 255>>)
        sq == IF undefined THEN (IF b = <<0, 0, 0, 0>> THEN <<0, 0, 0, 0>> ELSE IntMin)
              ELSE IF S32(b) > 0 THEN Bytes(Trunc(S32(a), S32(b)))
              ELSE IF b = IntMin THEN Bool32(a = IntMin)
              ELSE Sub32(<<0, 0, 0, 0>>, Bytes(Trunc(S32(a), 0 - S32(b))))
        \* unsigned: both below 2^31; or b >= 2^31, the quotient being 0 or 1;
        \* or a = 2^31 + x with x = S32(a) + 2^31 and b < 2^31
        uq == IF undefined THEN <<0, 0, 0, 0>>
              ELSE IF b[4] >= 128 THEN Bool32(~LtU32(a, b))
              ELSE IF a[4] < 128 THEN Bytes(S32(a) \div S32(b))
              ELSE LET p == S32(b)
                       x == (S32(a) + 2147483647) + 1
                       y == (2147483647 % p) + 1
                   IN  Add32(Bytes(x \div p), Bytes(2147483647 \div p),
                             IF x % p >= p - y THEN 1 ELSE 0)
        q == IF signed THEN sq ELSE uq
    IN  [undefined |-> undefined,
         value |-> IF op \in {"I32_DIV_S", "I32_DIV_U"} THEN q
                   ELSE Sub32(a, Mul32(q, b))]

-----------------------------------------------------------------------------
(* The interpreter *)

ExitAddr == 1            \* the address of the EXIT instruction of the shim

CodeAddr(f, k) == (f + 1) * CodeStride + k
StackAddr(i) == StackBase + i

FuncOf(a) == a \div CodeStride - 1
IndexOf(a) == a % CodeStride

ValidPc(a) ==
    \/ a = ExitAddr
    \/ /\ FuncOf(a) \in 0..(Len(mod.functions) - 1)
       /\ IndexOf(a) < Len(mod.functions[FuncOf(a) + 1].code)

ExitCode == Code("EXIT", NoOperand, NoOperand, NoOperand, ZeroCell)

Fetch(a) ==
    IF a = ExitAddr THEN ExitCode
    ELSE mod.functions[FuncOf(a) + 1].code[IndexOf(a) + 1]

InSlab(i) == i \in 0..(StackSize - 1)

\* LOAD_OP(itype, otype, out_type) and STORE_OP(itype, otype), per opcode:
\* n is the size of the object the handler accesses at data[index] (the
\* itype of a load, the otype of a store), from the size of the stack member
\* a store takes its value from, w the width of the Wasm instruction.
\* I32_STORE8 is STORE_OP(u8, wasm_u32_t): a 4-byte object is written.
\* Likewise I32_STORE16 is STORE_OP(u16, wasm_u32_t), and I64_STORE8,
\* I64_STORE16 and I64_STORE32 are STORE_OP(u8 / u16 / u32, wasm_u64_t).
MemoryOps ==
    [op \in {"I32_LOAD", "I32_LOAD8_U", "I32_STORE", "I32_STORE8", "I32_STORE16",
             "I64_STORE", "I64_STORE8", "I64_STORE16", "I64_STORE32"} |->
        CASE op = "I32_LOAD"    -> [k |-> "load",  n |-> 4, from |-> 4, w |-> 4]
          [] op = "I32_LOAD8_U" -> [k |-> "load",  n |-> 1, from |-> 1, w |-> 1]
          [] op = "I32_STORE"   -> [k |-> "store", n |-> 4, from |-> 4, w |-> 4]
          [] op = "I32_STORE8"  -> [k |-> "store", n |-> 4, from |-> 1, w |-> 1]
          [] op = "I32_STORE16" -> [k |-> "store", n |-> 4, from |-> 2, w |-> 2]
          [] op = "I64_STORE"   -> [k |-> "store", n |-> 8, from |-> 8, w |-> 8]
          [] op = "I64_STORE8"  -> [k |-> "store", n |-> 8, from |-> 1, w |-> 1]
          [] op = "I64_STORE16" -> [k |-> "store", n |-> 8, from |-> 2, w |-> 2]
          [] OTHER              -> [k |-> "store", n |-> 8, from |-> 4, w |-> 4]]

\* The register offsets, relative to the frame pointer, of the cells an
\* instruction reads or writes.
Regs(c) ==
    CASE c.op = "MOVE" -> {c.op0, c.op1}
      [] c.op \in {"LOAD_CONST_I32", "LOAD_CONST_I64", "LOAD_CONST_F32",
                   "LOAD_CONST_F64"} -> {c.op0}
      [] c.op = "STATIC_CALL" ->
            LET r == mod.functions[c.op1 + 1].type.return_size
            IN  {c.op0 + r, c.op0 + r + 1}
      [] c.op = "RETURN" -> {0, 1}
      [] c.op \in {"EXIT", "I32_POPCNT", "I64_POPCNT", "DYNAMIC_CALL"} -> {}
      [] c.op = "JUMP_TABLE" -> {c.op2}
      [] c.op \in {"MEMORY_SIZE", "GLOBAL_GET"} -> {c.op0}
      [] c.op = "GLOBAL_SET" -> {c.op1}
      [] c.op \in ArithOps \cup DivOps -> {c.op0, c.op1, c.op2}
      [] c.op \in DOMAIN MemoryOps ->
            IF MemoryOps[c.op].k = "load" THEN {c.op0} ELSE {c.op1}
      [] OTHER -> {c.op0, c.op1}

Running == status = "run" /\ ValidPc(pc) /\ \A r \in Regs(Fetch(pc)) : InSlab(fp + r)

Cur == Fetch(pc)

Reg(r) == stack[fp + r]

Step(newstack) ==
    /\ stack' = newstack
    /\ pc' = pc + 1
    /\ UNCHANGED <<wasm, mod, fp, status, result, build, host, memory, grown, calls, lastret>>

NoReturn == [valid |-> FALSE, fp |-> 0, pc |-> 0, due_fp |-> 0, due_pc |-> 0]

\* CASE(MOVE)
Move ==
    /\ Running /\ Cur.op = "MOVE"
    /\ Step([stack EXCEPT ![fp + Cur.op0] = Reg(Cur.op1)])

\* LOAD_CONST_OP(type): 4 bytes for u32 and f32, 8 bytes for u64 and f64.
ConstWidth(op) == IF op \in {"LOAD_CONST_I32", "LOAD_CONST_F32"} THEN 4 ELSE 8

LoadConst ==
    /\ Running
    /\ Cur.op \in {"LOAD_CONST_I32", "LOAD_CONST_I64", "LOAD_CONST_F32",
                   "LOAD_CONST_F64"}
    /\ Step([stack EXCEPT ![fp + Cur.op0] =
                 SetLow(@, Cur.value, ConstWidth(Cur.op))])

\* ARITHMETIC_OP(u32 / s32, operand)
ArithmeticOp ==
    /\ Running /\ Cur.op \in ArithOps
    /\ Step([stack EXCEPT ![fp + Cur.op0] =
                 SetLow(@, Arith32(Cur.op, Low(Reg(Cur.op1), 4),
                                   Low(Reg(Cur.op2), 4)) \o <<0, 0, 0, 0>>, 4)])

\* ARITHMETIC_OP(s32 / u32, / or %): no operand is tested before the C
\* operator is applied.  Where C leaves the operation undefined, the build
\* either stops the process with a signal (the divide fault of x86) or
\* stores what the divide instruction of the target yields and goes on.
DivisionOp ==
    /\ Running /\ Cur.op \in DivOps
    /\ LET r == Div32(Cur.op, Low(Reg(Cur.op1), 4), Low(Reg(Cur.op2), 4))
       IN  \/ Step([stack EXCEPT ![fp + Cur.op0] =
                        SetLow(@, r.value \o <<0, 0, 0, 0>>, 4)])
           \/ /\ r.undefined
              /\ status' = "killed"
              /\ UNCHANGED <<wasm, mod, stack, fp, pc, result, build, host,
                             memory, grown, calls, lastret>>

\* LOAD_OP and STORE_OP: the object at &mod->memory_block->data[index] is
\* read or written, index being the operand the translator filled with the
\* offset of the memarg; nothing compares it with the size of the block.
\* memory.data maps the offsets written so far to their bytes; the block is
\* zero-filled when allocated.  An access that leaves the block is
\* undefined: either the bytes behind the block are accessed (a load gets
\* whatever they hold, a store leaves its bytes there) and the run goes on,
\* or the process is stopped by a signal, which is the one outcome when no
\* block was allocated (memory_block = NULL).
MemoryOp ==
    /\ Running /\ Cur.op \in DOMAIN MemoryOps
    /\ LET t      == MemoryOps[Cur.op]
           at     == IF t.k = "load" THEN Cur.op1 ELSE Cur.op0
           \* the size of the block: its three low bytes, and whether it is
           \* 2^24 or more (every offset of the programs is below that)
           block  == memory.block_bytes[1] + 256 * memory.block_bytes[2]
                     + 65536 * memory.block_bytes[3]
           large  == memory.block_bytes[4] > 0
           inside == memory.declared /\ (large \/ at + t.n <= block)
           d      == memory.data
           range  == at..(at + t.n - 1)
           byte(a, unknown) ==
               IF a \in DOMAIN d THEN d[a]
               ELSE IF large \/ a < block THEN 0 ELSE unknown
           load(unknown) ==
               /\ stack' = [stack EXCEPT ![fp + Cur.op0] =
                               SetLow(@, [i \in 1..8 |->
                                            IF i <= t.n
                                            THEN byte(at + i - 1, unknown)
                                            ELSE 0], 4)]
               /\ memory' = memory
           store ==
               /\ memory' = [memory EXCEPT !.data =
                                [a \in (DOMAIN d) \cup range |->
                                    IF a \notin range THEN d[a]
                                    ELSE IF a - at < t.from
                                    THEN Reg(Cur.op1)[a - at + 1] ELSE 0]]
               /\ stack' = stack
       IN  \/ /\ memory.declared
              /\ IF t.k = "load" THEN \E unknown \in {0, 255} : load(unknown)
                 ELSE store
              /\ pc' = pc + 1
              /\ UNCHANGED <<wasm, mod, fp, status, result, build, host, grown,
                             calls, lastret>>
           \/ /\ ~inside
              /\ status' = "killed"
              /\ UNCHANGED <<wasm, mod, stack, fp, pc, result, build, host,
                             memory, grown, calls, lastret>>

\* CASE(GLOBAL_GET): stack[op0].u64 = mod->globals[op1].u64.  An index past
\* the slots allocated for mod->globals reads whatever lies behind them.
GlobalGet ==
    /\ Running /\ Cur.op = "GLOBAL_GET"
    /\ \E unknown \in {ZeroCell, [i \in 1..8 |-> 255]} :
          Step([stack EXCEPT ![fp + Cur.op0] =
                   IF Cur.op1 + 1 \in DOMAIN mod.globals
                   THEN mod.globals[Cur.op1 + 1] ELSE unknown])

\* CASE(GLOBAL_SET): mod->globals[op0].u64 = stack[op1].u64.  An index past
\* the slots allocated for mod->globals writes behind them: the write lands
\* outside the globals, or the process is killed.
GlobalSet ==
    /\ Running /\ Cur.op = "GLOBAL_SET"
    /\ IF Cur.op0 + 1 \in DOMAIN mod.globals
       THEN /\ mod' = [mod EXCEPT !.globals[Cur.op0 + 1] = Reg(Cur.op1)]
            /\ pc' = pc + 1 /\ status' = status
       ELSE \/ mod' = mod /\ pc' = pc + 1 /\ status' = status
            \/ mod' = mod /\ pc' = pc /\ status' = "killed"
    /\ UNCHANGED <<wasm, stack, fp, result, build, host, memory, grown, calls,
                   lastret>>

\* CASE(I32_POPCNT), CASE(I64_POPCNT): NOT_IMPLEMENTED() logs and returns
\* from wasmbox_eval_function, which is void; wasmbox_eval_module then
\* returns 0 as after EXIT.
NotImplemented ==
    /\ Running /\ Cur.op \in {"I32_POPCNT", "I64_POPCNT"}
    /\ status' = "done"
    /\ result' = 0
    /\ UNCHANGED <<wasm, mod, stack, fp, pc, build, host, memory, grown, calls,
                   lastret>>

\* CASE(I32_REINTERPRET_F32): .u32 = .u32
I32ReinterpretF32 ==
    /\ Running /\ Cur.op = "I32_REINTERPRET_F32"
    /\ Step([stack EXCEPT ![fp + Cur.op0] = SetLow(@, Reg(Cur.op1), 4)])

\* The handler with the 32-bit member in place of the 64-bit one.
I64ReinterpretF64Narrow ==
    /\ Running /\ Cur.op = "I64_REINTERPRET_F64"
    /\ Step([stack EXCEPT ![fp + Cur.op0] = SetLow(@, Reg(Cur.op1), 4)])

\* CASE(I64_REINTERPRET_F64): .u64 = .u64
I64ReinterpretF64 ==
    /\ Running /\ Cur.op = "I64_REINTERPRET_F64"
    /\ Step([stack EXCEPT ![fp + Cur.op0] = SetLow(@, Reg(Cur.op1), 8)])

\* CASE(F32_REINTERPRET_I32): .f32 = .f32, a copy of the 4 bytes
F32ReinterpretI32 ==
    /\ Running /\ Cur.op = "F32_REINTERPRET_I32"
    /\ Step([stack EXCEPT ![fp + Cur.op0] = SetLow(@, Reg(Cur.op1), 4)])

\* CASE(F64_REINTERPRET_I64): .f64 = .f64, a copy of the 8 bytes
F64ReinterpretI64 ==
    /\ Running /\ Cur.op = "F64_REINTERPRET_I64"
    /\ Step([stack EXCEPT ![fp + Cur.op0] = SetLow(@, Reg(Cur.op1), 8)])

\* CASE(STATIC_CALL): the callee's frame is return_size cells above op0; the
\* caller's frame pointer and the address of the next instruction go to its
\* cells 0 and 1.
StaticCall ==
    /\ Running /\ Cur.op = "STATIC_CALL"
    /\ LET func      == mod.functions[Cur.op1 + 1]
           stack_top == fp + Cur.op0 + func.type.return_size
       IN  /\ stack' = [stack EXCEPT ![stack_top] = CellOfNat(StackAddr(fp)),
                                     ![stack_top + 1] = CellOfNat(pc + 1)]
           /\ fp' = stack_top
           /\ pc' = CodeAddr(Cur.op1, 0)
           /\ calls' = Append(calls, [fp |-> fp, ret |-> pc + 1])
    /\ lastret' = NoReturn
    /\ UNCHANGED <<wasm, mod, status, result, build, host, memory, grown>>

\* CASE(RETURN): code and stack are read back from cells 1 and 0.
Return ==
    /\ Running /\ Cur.op = "RETURN"
    /\ pc' = NatOfCell(Reg(1))
    /\ fp' = NatOfCell(Reg(0)) - StackBase
    /\ IF calls = <<>>
       THEN calls' = calls /\ lastret' = NoReturn
       ELSE /\ calls' = SubSeq(calls, 1, Len(calls) - 1)
            /\ lastret' = [valid |-> TRUE, fp |-> fp', pc |-> pc',
                           due_fp |-> calls[Len(calls)].fp,
                           due_pc |-> calls[Len(calls)].ret]
    /\ UNCHANGED <<wasm, mod, stack, status, result, build, host, memory, grown>>

\* CASE(EXIT): wasmbox_eval_function returns, and wasmbox_eval_module
\* returns 0.
Exit ==
    /\ Running /\ Cur.op = "EXIT"
    /\ status' = "done"
    /\ result' = 0
    /\ UNCHANGED <<wasm, mod, stack, fp, pc, build, host, memory, grown, calls, lastret>>

\* wasmbox_module_add_memory_page(mod, limit): the value returned and the
\* memory of the module afterwards.  block_bytes is the size handed to
\* wasmbox_malloc, WASMBOX_PAGE_SIZE * pages in 32 bits.  data is the
\* content of the block, a function from the offsets written since the
\* allocation to their bytes: wasmbox_malloc zero-fills, so every other
\* byte of the block is 0.
PageBytes(pages) == <<0, 0, pages[1], pages[2]>>

wasmbox_module_add_memory_page(m, limit) ==
    IF m.declared THEN [ret |-> 0 - 1, memory |-> m]
    ELSE IF LtU32(limit.max, limit.min) THEN [ret |-> 0 - 1, memory |-> m]
    ELSE [ret |-> 0,
          memory |-> [declared |-> TRUE, size |-> limit.min,
                      capacity |-> limit.max,
                      block_bytes |-> PageBytes(limit.min), data |-> <<>>]]

\* wasmbox_runtime_memory_size
wasmbox_runtime_memory_size(m) == m.size

\* wasmbox_runtime_memory_grow(mod, new_size): the sum is a wasm_u32_t; the
\* new block comes from wasmbox_malloc and nothing is copied into it.
wasmbox_runtime_memory_grow(m, new_size) ==
    LET current_page_size == wasmbox_runtime_memory_size(m)
    IN  IF \/ new_size = <<0, 0, 0, 0>>
           \/ LtU32(m.capacity, Add32(current_page_size, new_size, 0))
        THEN [ret |-> current_page_size, memory |-> m]
        ELSE [ret |-> current_page_size,
              memory |-> [m EXCEPT !.declared = TRUE,
                                   !.size = new_size,
                                   !.block_bytes = PageBytes(new_size),
                                   !.data = <<>>]]

\* CASE(MEMORY_SIZE)
MemorySize ==
    /\ Running /\ Cur.op = "MEMORY_SIZE"
    /\ Step([stack EXCEPT ![fp + Cur.op0] =
                 SetLow(@, wasmbox_runtime_memory_size(memory) \o <<0, 0, 0, 0>>, 4)])

\* CASE(MEMORY_GROW)
MemoryGrow ==
    /\ Running /\ Cur.op = "MEMORY_GROW"
    /\ LET n == Low(Reg(Cur.op1), 4)
           r == wasmbox_runtime_memory_grow(memory, n)
       IN  /\ stack' = [stack EXCEPT ![fp + Cur.op0] =
                           SetLow(@, r.ret \o <<0, 0, 0, 0>>, 4)]
           /\ memory' = r.memory
           /\ grown' = [done |-> TRUE, n |-> n, before |-> memory, ret |-> r.ret]
    /\ pc' = pc + 1
    /\ UNCHANGED <<wasm, mod, fp, status, result, build, host, calls, lastret>>

\* The interpreter reads or writes a cell outside the slab, or fetches an
\* instruction from an address that holds none: undefined behaviour.
Undefined ==
    /\ status = "run"
    /\ ~Running
    /\ status' = "undefined"
    /\ UNCHANGED <<wasm, mod, stack, fp, pc, result, build, host, memory, grown, calls, lastret>>

-----------------------------------------------------------------------------
(* The inputs: modules a Wasm producer can emit, and the arguments the     *)
(* host places.                                                            *)

\* Signed LEB128, as a Wasm producer encodes the 64-bit integer with bits S.
ASR7(S) == {j - 7 : j \in {k \in S : k >= 7}} \cup (IF 63 \in S THEN 57..63 ELSE {})

RECURSIVE EncodeSLEB(_)
EncodeSLEB(S) ==
    LET b == ByteOfBits(S \cap (0..6), 0)
        r == ASR7(S)
    IN  IF (r = {} /\ 6 \notin S) \/ (r = 0..63 /\ 6 \in S)
        THEN <<b>>
        ELSE <<b + 128>> \o EncodeSLEB(r)

SignExtend32(S) == (S \cap (0..31)) \cup (IF 31 \in S THEN 32..63 ELSE {})

\* 32-bit integers, sign-extended: 0, 1, -1, -123456, 2^31 - 1, -2^27,
\* -2^28 and -2^31 (the last two take five bytes).
I32Values ==
    { {}, {0}, 0..63, SignExtend32(BitsOfCell(CellOfS32(0 - 123456))), 0..30,
      27..63, 28..63, 31..63 }

\* 64-bit integers: 0, -1, 2^40, -2^31, -2^35, -2^63.
I64Values == { {}, 0..63, {40}, 31..63, 35..63, {63} }

\* Bit patterns of floats: 1.0, -0.0, a NaN with a payload; and of cells.
F32Patterns == { <<0, 0, 128, 63>>, <<0, 0, 0, 128>>, <<1, 0, 192, 127>> }
F64Patterns ==
    { <<0, 0, 0, 0, 0, 0, 240, 63>>, <<0, 0, 0, 0, 0, 0, 0, 128>>,
      <<1, 2, 3, 4, 5, 6, 248, 127>> }
CellPatterns ==
    F64Patterns \cup {ZeroCell, <<0, 0, 128, 63, 0, 0, 0, 0>>,
                      <<255, 255, 255, 255, 255, 255, 255, 255>>}

\* The constants of the model: the instruction, its encoded immediate and
\* the cell the constant denotes.
Constants ==
    {[k |-> "i32.const", bytes |-> EncodeSLEB(S),
      cell |-> SetLow(ZeroCell, CellOfBits(S), 4)] : S \in I32Values}
    \cup {[k |-> "i64.const", bytes |-> EncodeSLEB(S),
           cell |-> CellOfBits(S)] : S \in I64Values}
    \cup {[k |-> "f32.const", bytes |-> c,
           cell |-> SetLow(ZeroCell, c \o <<0, 0, 0, 0>>, 4)] : c \in F32Patterns}
    \cup {[k |-> "f64.const", bytes |-> c, cell |-> c] : c \in F64Patterns}

\* fn() = const c; end
ConstModule(c) ==
    << Fn(0, 1, StartName, 0, << TConst(c.k, c.bytes), T0("end") >>) >>

\* fn() = i32.const 11; i32.const 22; end, with two results.
TwoReturnsModule ==
    << Fn(0, 2, StartName, 0,
          << TConst("i32.const", <<11>>), TConst("i32.const", <<22>>), T0("end") >>) >>

ReinterpretOps ==
    {"I32_REINTERPRET_F32", "I64_REINTERPRET_F64", "F32_REINTERPRET_I32",
     "F64_REINTERPRET_I64"}

\* The opposite conversion.
Inverse(op) ==
    CASE op = "I32_REINTERPRET_F32" -> "F32_REINTERPRET_I32"
      [] op = "F32_REINTERPRET_I32" -> "I32_REINTERPRET_F32"
      [] op = "I64_REINTERPRET_F64" -> "F64_REINTERPRET_I64"
      [] OTHER                      -> "I64_REINTERPRET_F64"

ReinterpretWidth(op) ==
    IF op \in {"I32_REINTERPRET_F32", "F32_REINTERPRET_I32"} THEN 4 ELSE 8

\* test/wasm/reinterpret-*.c: fn(x) = local.get 0; reinterpret; end
ReinterpretModule(op) ==
    << Fn(1, 1, StartName, 0, << TX("local.get", 0), TNum(op), T0("end") >>) >>

\* fn(x) = local.get 0; reinterpret; the opposite reinterpret; end
RoundTripModule(op) ==
    << Fn(1, 1, StartName, 0,
          << TX("local.get", 0), TNum(op), TNum(Inverse(op)), T0("end") >>) >>

\* _start() = f(), f() = g(), g() = 7: nested calls that return a value.
CallChainModule ==
    << Fn(0, 1, StartName, 0, << TX("call", 1), T0("end") >>),
       Fn(0, 1, NoName, 0, << TX("call", 2), T0("end") >>),
       Fn(0, 1, NoName, 0, << TConst("i32.const", <<7>>), T0("end") >>) >>

\* _start() = f(); 5, where f() = g() and g() = () return nothing.
VoidChainModule ==
    << Fn(0, 1, StartName, 0,
          << TX("call", 1), TConst("i32.const", <<5>>), T0("end") >>),
       Fn(0, 0, NoName, 0, << TX("call", 2), T0("end") >>),
       Fn(0, 0, NoName, 0, << T0("end") >>) >>

\* fn(x) = block; br 0; i32.const 9; local.set 0; end; local.get 0; end
BrModule ==
    << Fn(1, 1, StartName, 0,
          << T0("block"), TX("br", 0), TConst("i32.const", <<9>>),
             TX("local.set", 0), T0("end"), TX("local.get", 0), T0("end") >>) >>

\* fn(x) = block; block; br 1; i32.const 9; local.set 0; end;
\*         i32.const 8; local.set 0; end; local.get 0; end
NestedBrModule ==
    << Fn(1, 1, StartName, 0,
          << T0("block"), T0("block"), TX("br", 1), TConst("i32.const", <<9>>),
             TX("local.set", 0), T0("end"), TConst("i32.const", <<8>>),
             TX("local.set", 0), T0("end"), TX("local.get", 0), T0("end") >>) >>

\* Modules that export no function named "_start": no export at all, and
\* the names "_star", "_start2", "xstart" and "_starT".
OtherNames ==
    { NoName, <<95, 115, 116, 97, 114>>, <<95, 115, 116, 97, 114, 116, 50>>,
      <<120, 115, 116, 97, 114, 116>>, <<95, 115, 116, 97, 114, 84>> }

NoStartModule(name) ==
    << Fn(0, 1, NoName, 0, << TConst("i32.const", <<7>>), T0("end") >>),
       Fn(1, 1, name, 0, << TConst("i32.const", <<5>>), T0("end") >>) >>

\* A body that starts with `else` (0x05), an opcode no decoder takes.
BadModule == << Fn(0, 1, StartName, 0, << T0("else"), T0("end") >>) >>

Scenario(kind, w, a, v) == [kind |-> kind, wasm |-> w, args |-> a, value |-> v]

Scenarios ==
    {Scenario("factorial", FactorialModule, <<CellOfNat(x)>>, CellOfNat(x)) :
        x \in 1..MaxArg}
    \cup {Scenario("const", ConstModule(c), <<>>, c.cell) : c \in Constants}
    \cup {Scenario("tworeturns", TwoReturnsModule, <<>>, ZeroCell)}
    \cup {Scenario("reinterpret", ReinterpretModule(op), <<x>>, x) :
             op \in ReinterpretOps, x \in CellPatterns}
    \cup {Scenario("roundtrip", RoundTripModule(op), <<x>>, x) :
             op \in ReinterpretOps, x \in CellPatterns}
    \cup {Scenario("callchain", CallChainModule, <<>>, ZeroCell)}
    \cup {Scenario("voidchain", VoidChainModule, <<>>, ZeroCell)}
    \* _start(x) = 7; f(); end with one local, where f() returns nothing
    \* and has L locals.
    \cup {Scenario("voidcall",
                   << Fn(1, 1, StartName, 1,
                         << TConst("i32.const", <<7>>), TX("call", 1), T0("end") >>),
                      Fn(0, 0, NoName, L, << T0("end") >>) >>,
                   <<CellOfNat(x)>>, CellOfNat(7)) :
             L \in 0..1, x \in 1..MaxArg}
    \* _start(x0 .. xA-1) = local.get i; end, with R results; the host
    \* passes 41, 42, ...
    \cup UNION {{Scenario("params",
                   << Fn(A, R, StartName, 0, << TX("local.get", i), T0("end") >>) >>,
                   [j \in 1..A |-> CellOfNat(40 + j)], CellOfNat(41 + i)) :
             R \in 0..2, i \in 0..(A - 1)} : A \in 1..2}
    \cup {Scenario("br", m, <<CellOfNat(x)>>, CellOfNat(x)) :
             m \in {BrModule, NestedBrModule}, x \in 1..MaxArg}
    \cup {Scenario("nostart", NoStartModule(n), <<x>>, x) :
             n \in OtherNames, x \in {ZeroCell, CellOfNat(3)}}
    \cup {Scenario("bad", BadModule, <<>>, ZeroCell)}
    \cup {Scenario("unreachable",
                   << Fn(0, 1, StartName, 0,
                         << T0("unreachable"), TConst("i32.const", <<9>>),
                            T0("end") >>) >>,
                   <<>>, ZeroCell)}
    \cup {Scenario("popcnt",
                   << Fn(1, 1, StartName, 0,
                         << TX("local.get", 0), TNum(op), T0("end") >>) >>,
                   <<x>>, x) :
             op \in {"I32_POPCNT", "I64_POPCNT"}, x \in CellPatterns}
    \cup {Scenario("div",
                   << Fn(2, 1, StartName, 0,
                         << TX("local.get", 0), TX("local.get", 1), TNum(op),
                            T0("end") >>) >>,
                   <<a, b>>, ZeroCell) :
             op \in DivOps,
             a \in {CellOfNat(7), CellOfS32(0 - 7), CellOfS32(0 - 1),
                    <<0, 0, 0, 128, 0, 0, 0, 0>>},
             b \in {ZeroCell, CellOfNat(2), CellOfS32(0 - 1), CellOfS32(0 - 2)}}
    \cup {Scenario("straight",
                   << Fn(1, 1, StartName, 0, body \o << T0("end") >>) >>,
                   <<CellOfNat(x)>>, ZeroCell) :
             x \in {3},
             body \in
                 LET C(n) == TConst("i32.const", <<n>>)
                 IN  { << C(1), C(2), C(3), TNum("I32_ADD"), TNum("I32_ADD") >>,
                       << C(5), C(2), TNum("I32_SUB") >>,
                       << C(1), C(2), T0("drop") >>,
                       << C(1), C(4), TX("local.set", 0) >>,
                       << C(4), TX("local.set", 0), TX("local.get", 0),
                          TX("local.get", 0), TNum("I32_MUL") >>,
                       << TX("local.get", 0), C(2), C(7), TNum("I32_MUL"),
                          TNum("I32_SUB") >> }}
    \cup {Scenario("call",
                   << Fn(0, 1, StartName, 0,
                         [i \in 1..A |-> TConst("i32.const", <<10 * i>>)]
                         \o << TX("call", 1), T0("end") >>),
                      Fn(A, 1, NoName, 0,
                         << TX("local.get", A - 1), T0("end") >>) >>,
                   <<>>, ZeroCell) :
             A \in 1..MaxArg}
    \cup {Scenario("if",
                   << Fn(1, 1, StartName, 2,
                         << TX("local.get", 0),
                            T0("if"),
                                TConst("i32.const", <<11>>), TX("local.set", 1),
                            T0("else"),
                                TConst("i32.const", <<22>>), TX("local.set", 2),
                            T0("end"),
                            TConst("i32.const", <<5>>),
                            T0("end") >>) >>,
                   <<x>>, ZeroCell) :
             x \in {ZeroCell, CellOfNat(1), CellOfNat(3)}}
    \cup {Scenario("return",
                   << Fn(0, 1, StartName, 0,
                         << TConst("i32.const", <<7>>), T0("return"),
                            TConst("i32.const", <<9>>), T0("end") >>) >>,
                   <<>>, CellOfNat(7))}
    \cup {Scenario("unary",
                   << Fn(0, 1, StartName, 0,
                         before \o << TConst("i32.const", <<9>>),
                                      TNum("F32_REINTERPRET_I32"), T0("end") >>) >>,
                   <<>>, CellOfNat(9)) :
             before \in {<<>>, << TConst("i32.const", <<5>>) >>}}

-----------------------------------------------------------------------------
(* The host program (test/runner.c) *)

NoResult == 0 - 99       \* wasmbox_eval_module has not returned

\* wasmbox_value_t stack[StackSize] = {}, then WASMBOX_ADD_ARGUMENT(stack, i,
\* u64, v) for each argument: STACK[2 + 1 + i].u64 = v.
Slab(a) ==
    [i \in 0..(StackSize - 1) |->
        IF i - (WASMBOX_FUNCTION_CALL_OFFSET + 1) \in 0..(Len(a) - 1)
        THEN a[i - (WASMBOX_FUNCTION_CALL_OFFSET + 1) + 1]
        ELSE ZeroCell]

NoMemory == [declared |-> FALSE, size |-> <<0, 0, 0, 0>>,
             capacity |-> <<0, 0, 0, 0>>, block_bytes |-> <<0, 0, 0, 0>>,
             data |-> <<>>]
NoGrow == [done |-> FALSE, n |-> <<0, 0, 0, 0>>, before |-> NoMemory,
           ret |-> <<0, 0, 0, 0>>]

Init ==
    /\ \E sc \in Scenarios :
          /\ wasm = sc.wasm
          /\ host = sc
          /\ stack = Slab(sc.args)
    /\ build \in UndefinedShiftOutcomes
    /\ mod = [functions |-> <<>>, parsed |-> 0]
    /\ fp = 0 /\ pc = 0
    /\ status = "file"
    /\ result = NoResult
    /\ memory = NoMemory /\ grown = NoGrow
    /\ calls = <<>> /\ lastret = NoReturn

\* wasmbox_load_module: the module is parsed; the host goes on to evaluate
\* it only when the loader returned 0.
\* The first wasmbox_code_add of a function hands realloc a pointer that
\* wasmbox_malloc returned (see CodeAdd), which is undefined: the process
\* may be stopped there, in the middle of the load.
LoadModule ==
    /\ status = "file"
    /\ LET loaded(m) ==
               \/ /\ mod' = m
                  /\ status' = IF m.parsed = 0 THEN "loaded" ELSE "loadfailed"
               \/ /\ \E f \in DOMAIN m.functions : m.functions[f].code # <<>>
                  /\ mod' = mod
                  /\ status' = "crashed"
       IN  loaded(parse_module(wasm, build))
    /\ UNCHANGED <<wasm, stack, fp, pc, result, build, host, memory, grown,
                   calls, lastret>>

\* The comparison without `func->name->len == start_len`: any name that
\* begins with "_start" is taken.
IsStartPrefix(name) ==
    /\ name # NoName
    /\ Len(name) >= Len(StartName)
    /\ \A i \in 1..Len(StartName) : name[i] = StartName[i]

\* strlen("_start") and the comparison of wasmbox_module_find_entrypoint.
IsStart(name) ==
    /\ name # NoName
    /\ Len(name) = Len(StartName)
    /\ \A i \in 1..Len(StartName) : name[i] = StartName[i]

\* wasmbox_module_find_entrypoint: the index of the first function named
\* "_start", -1 for NULL.
wasmbox_module_find_entrypoint(m) ==
    LET found == {i \in 1..Len(m.functions) : IsStart(m.functions[i].name)}
    IN  IF found = {} THEN 0 - 1
        ELSE (CHOOSE i \in found : \A j \in found : i <= j) - 1

\* wasmbox_eval_module up to the call of wasmbox_eval_function: without an
\* entry point it returns -1; otherwise the frame of _start begins
\* return_size cells into the slab, its cell 0 holds its own address and its
\* cell 1 the address of the EXIT instruction.
EvalModule ==
    /\ status = "loaded"
    /\ LET func == wasmbox_module_find_entrypoint(mod)
       IN  IF func < 0
           THEN /\ result' = 0 - 1
                /\ status' = "done"
                /\ UNCHANGED <<stack, fp, pc>>
           ELSE LET stack_top == mod.functions[func + 1].type.return_size
                IN  /\ stack' = [stack EXCEPT
                                   ![stack_top] = CellOfNat(StackAddr(stack_top)),
                                   ![stack_top + 1] = CellOfNat(ExitAddr)]
                    /\ fp' = stack_top
                    /\ pc' = CodeAddr(func, 0)
                    /\ status' = "run"
                    /\ UNCHANGED result
    /\ UNCHANGED <<wasm, mod, build, host, memory, grown, calls, lastret>>

Next ==
    \/ LoadModule
    \/ EvalModule
    \/ Move
    \/ LoadConst
    \/ ArithmeticOp
    \/ DivisionOp
    \/ NotImplemented
    \/ I32ReinterpretF32
    \/ I64ReinterpretF64
    \/ F32ReinterpretI32
    \/ F64ReinterpretI64
    \/ StaticCall
    \/ Return
    \/ Exit
    \/ Undefined

Spec == Init /\ [][Next]_vars

-----------------------------------------------------------------------------
(* Programs that grow the memory.  The module declares one memory with the *)
(* limits [min, max]; its _start is a sequence of memory.grow instructions *)
(* with constant operands, each followed by memory.size, given as register *)
(* code: i32.const n is LOAD_CONST_I32, memory.grow is MEMORY_GROW from    *)
(* the slot of the constant, memory.size is MEMORY_SIZE.                   *)

U32(n) == Low(CellOfNat(n), 4)
U32Max == <<255, 255, 255, 255>>     \* WASM_U32_MAX

\* The limits of the declared memory: min in 0..2, max 1, 2, 4 or absent
\* (parse_limit sets WASM_U32_MAX); min > max is among them.
Limits ==
    {[min |-> U32(a), max |-> b] : a \in 0..2, b \in {U32(1), U32(2), U32(4), U32Max}}

\* The operands of memory.grow: 0, 1, 2, 3, 2^32 - 2 and 2^32 - 1.
GrowOperands ==
    {U32(0), U32(1), U32(2), U32(3), <<254, 255, 255, 255>>, U32Max}

RECURSIVE GrowCode(_)
GrowCode(ns) ==
    IF ns = <<>> THEN <<>>
    ELSE << Code("LOAD_CONST_I32", 2, NoOperand, NoOperand,
                 Head(ns) \o <<0, 0, 0, 0>>),
            Code("MEMORY_GROW", 3, 2, NoOperand, ZeroCell),
            Code("MEMORY_SIZE", 4, NoOperand, NoOperand, ZeroCell) >>
         \o GrowCode(Tail(ns))

GrowProgram(ns) ==
    [code |-> GrowCode(ns)
                \o << Code("MOVE", 0 - 1, 4, NoOperand, ZeroCell),
                      Code("RETURN", NoOperand, NoOperand, NoOperand, ZeroCell) >>,
     type |-> [argument_size |-> 0, return_size |-> 1],
     name |-> StartName, locals |-> 0, stack_top |-> 5]

OperandSeqs == UNION {[1..k -> GrowOperands] : k \in 1..MaxGrows}

\* A program with one memory.grow may also store the word AB 00 00 00 at
\* offset 0 before the grow (LOAD_CONST_I32, I32_STORE) and load the word at
\* offset 0 into register 6 after it (I32_LOAD).
InitMem ==
    /\ \E limit \in Limits, ns \in OperandSeqs, stores \in BOOLEAN :
          /\ stores => Len(ns) = 1
          /\ wasm = [memory |-> limit, grows |-> ns, stores |-> stores]
          /\ LET prog == GrowProgram(ns)
                 n    == Len(prog.code)
                 with == [prog EXCEPT
                            !.code =
                              << Code("LOAD_CONST_I32", 5, NoOperand, NoOperand,
                                      <<171, 0, 0, 0, 0, 0, 0, 0>>),
                                 Code("I32_STORE", 0, 5, NoOperand, ZeroCell) >>
                              \o SubSeq(prog.code, 1, n - 2)
                              \o << Code("I32_LOAD", 6, 0, NoOperand, ZeroCell) >>
                              \o SubSeq(prog.code, n - 1, n),
                            !.stack_top = 7]
             IN  mod = [functions |-> << IF stores THEN with ELSE prog >>,
                        parsed |-> 0]
    /\ host = Scenario("memory", <<>>, <<>>, ZeroCell)
    /\ stack = Slab(<<>>)
    /\ build = "wrap"
    /\ fp = 0 /\ pc = 0
    /\ status = "file"
    /\ result = NoResult
    /\ memory = NoMemory /\ grown = NoGrow
    /\ calls = <<>> /\ lastret = NoReturn

\* The memory section of the load: parse_memory_section hands the limits to
\* wasmbox_module_add_memory_page, and the load fails when it returns
\* nonzero.
AddMemoryPage ==
    /\ status = "file"
    /\ LET r == wasmbox_module_add_memory_page(memory, wasm.memory)
       IN  /\ memory' = r.memory
           /\ status' = IF r.ret = 0 THEN "loaded" ELSE "loadfailed"
    /\ UNCHANGED <<wasm, mod, stack, fp, pc, result, build, host, grown, calls,
                   lastret>>

NextMem ==
    \/ AddMemoryPage
    \/ EvalModule
    \/ LoadConst
    \/ MemoryGrow
    \/ MemorySize
    \/ MemoryOp
    \/ Move
    \/ Return
    \/ Exit

SpecMem == InitMem /\ [][NextMem]_vars

-----------------------------------------------------------------------------
(* The loader (wasmbox_load_module).  A file is [header, sections]: the    *)
(* bytes before the first section, and the sections in the order of the    *)
(* file.  A section is a record of its id and its decoded content: the     *)
(* limits of a memory section (id 5), the globals [mut, init] of a global  *)
(* section (id 6), the function declarations of the type, function, export *)
(* and code sections (kept together under id 10), the segments [type,      *)
(* offset, bytes] of a data section (id 11).  The module being built is a  *)
(* record: ret is the value the parser at hand returns, fault tells        *)
(* whether the load left the defined behaviour ("abort": a failed assert;  *)
(* "undefined": an access outside an array), log lists the sections        *)
(* handed to a section parser with the value each returned, inits counts   *)
(* the runs of the global initializer function and writes lists the slots  *)
(* of mod->globals it wrote.                                               *)

\* wasmbox_input_stream_read_u32: -1 when fewer than 4 bytes are left, and
\* the cursor stays; otherwise the 4 bytes at the cursor taken as a
\* wasm_u32_t of the host (*(wasm_u32_t *)), here least significant byte
\* first: on a little-endian host that is the order of the file.
wasmbox_input_stream_read_u32(data, index, order) ==
    IF index + 4 > Len(data) THEN [v |-> U32Max, index |-> index]
    ELSE [v |-> [i \in 1..4 |-> IF order = "little" THEN data[index + i]
                                ELSE data[index + 5 - i]],
          index |-> index + 4]

\* parse_magic: return read_u32(ins) == 0x0061736d.
parse_magic(data, index, order) ==
    LET r == wasmbox_input_stream_read_u32(data, index, order)
    IN  [ret |-> IF r.v = <<109, 115, 97, 0>> THEN 1 ELSE 0, index |-> r.index]

\* parse_version: return read_u32(ins) == 0x01000000.
parse_version(data, index, order) ==
    LET r == wasmbox_input_stream_read_u32(data, index, order)
    IN  [ret |-> IF r.v = <<0, 0, 0, 1>> THEN 1 ELSE 0, index |-> r.index]

\* The module after wasmbox_module_t mod = {}.
NewModule ==
    [functions |-> <<>>, parsed |-> 0, ret |-> 0, fault |-> "none",
     globals |-> <<>>, global_function |-> [code |-> <<>>, stack_top |-> 0],
     memory |-> NoMemory, log |-> <<>>, inits |-> 0, writes |-> <<>>]

\* wasmbox_eval_function(mod, code, stack) as the loader calls it, on the
\* code of a constant expression: `code` from instruction k on, the frame
\* at cell `base` of st.cells.  The cells hold slots 0 .. Len - 1; a slot
\* outside them is outside the array the loader passed.
RECURSIVE wasmbox_eval_function(_, _, _, _)
wasmbox_eval_function(code, k, st, base) ==
    LET c == code[k]
        inside(r) == base + r \in 0..(Len(st.cells) - 1)
        put(r, v) == [st EXCEPT !.cells[base + r + 1] = v,
                                !.writes = Append(@, base + r)]
    IN  IF ~st.ok \/ k > Len(code) THEN [st EXCEPT !.ok = FALSE]
        ELSE CASE c.op = "EXIT" -> st
               [] c.op \in {"LOAD_CONST_I32", "LOAD_CONST_I64", "LOAD_CONST_F32",
                            "LOAD_CONST_F64"} ->
                     IF inside(c.op0)
                     THEN wasmbox_eval_function(code, k + 1,
                              put(c.op0, SetLow(st.cells[base + c.op0 + 1],
                                                c.value, ConstWidth(c.op))), base)
                     ELSE [st EXCEPT !.ok = FALSE]
               [] c.op = "MOVE" ->
                     IF inside(c.op0) /\ inside(c.op1)
                     THEN wasmbox_eval_function(code, k + 1,
                              put(c.op0, st.cells[base + c.op1 + 1]), base)
                     ELSE [st EXCEPT !.ok = FALSE]
               [] OTHER -> [st EXCEPT !.ok = FALSE]

\* parse_global_variable for the global g = [mut, init] (its value type is
\* one of the four): the initializer is appended to mod->global_function,
\* whose trailing EXIT is erased first and added again afterwards.
parse_global_variable(m, g, outcome) ==
    LET global == m.global_function
        merged == IF global.code # <<>>
                     /\ global.code[Len(global.code)].op = "EXIT"
                  THEN [global EXCEPT !.code = SubSeq(@, 1, Len(@) - 1)]
                  ELSE global
        env    == [types |-> [f \in 1..Len(m.functions) |-> m.functions[f].type],
                   outcome |-> outcome]
        added(st) ==
            IF st.err THEN [m EXCEPT !.global_function = st.func, !.ret = 0 - 1]
            ELSE [m EXCEPT !.global_function = wasmbox_code_add(st.func, ExitCode)]
    IN  IF g.mut \notin {0, 1} THEN [m EXCEPT !.ret = 0 - 1]
        ELSE added(parse_expression(PState(merged, 1, FALSE), g.init, env))

\* parse_global_section: mod->globals is allocated anew, len zeroed slots,
\* whenever len > 0.
parse_global_section(m, sec, outcome) ==
    LET len == Len(sec.globals)
        m1  == IF len > 0 THEN [m EXCEPT !.globals = [i \in 1..len |-> ZeroCell]]
               ELSE m
        \* for (i = 0; i < len; i++) if (parse_global_variable(...)) return -1;
        step(a, g) == IF a.ret # 0 \/ a.fault # "none" THEN a
                      ELSE parse_global_variable(a, g, outcome)
        loop[i \in 0..len] ==
            IF i = 0 THEN m1 ELSE step(loop[i - 1], sec.globals[i])
    IN  loop[len]

\* parse_data for the segment seg = [type, offset, bytes].  The offset
\* expression of an active segment (type 0 or 2) is lowered into a scratch
\* function, followed by MOVE(stack_top - 1, -1) and EXIT, and run on
\* stack + 1 of wasmbox_value_t stack[8]; offset = stack[0].u32.  A passive
\* segment (type 1) keeps offset = 0.  Then memcpy(memory_block->data +
\* offset, payload, len), which stays in the block only when offset + len
\* <= block_bytes.
parse_data(m, seg, outcome) ==
    LET env == [types |-> [f \in 1..Len(m.functions) |-> m.functions[f].type],
                outcome |-> outcome]
        n   == Len(seg.bytes)
        d   == m.memory.data
        memcpy(offset) ==
            LET end  == Add32(offset, U32(n), 0)
                fits == ~LtU32(end, offset) /\ ~LtU32(m.memory.block_bytes, end)
                o    == offset[1] + 256 * offset[2] + 65536 * offset[3]
                        + 16777216 * offset[4]
            IN  IF ~fits THEN [m EXCEPT !.fault = "undefined"]
                ELSE [m EXCEPT !.memory.data =
                         [a \in (DOMAIN d) \cup (o..(o + n - 1)) |->
                             IF a \in o..(o + n - 1) THEN seg.bytes[a - o + 1]
                             ELSE d[a]]]
        copy(run) ==
            IF ~run.ok THEN [m EXCEPT !.fault = "undefined"]
            ELSE memcpy(Low(run.cells[1], 4))
        eval(func) ==
            copy(wasmbox_eval_function(func.code, 1,
                     [cells |-> [i \in 1..8 |-> ZeroCell], writes |-> <<>>,
                      ok |-> TRUE], 1))
        active(st) ==
            IF st.err THEN [m EXCEPT !.ret = 0 - 1]
            ELSE eval(wasmbox_code_add(
                          wasmbox_code_add_move(st.func, st.func.stack_top - 1,
                                                0 - 1),
                          ExitCode))
    IN  IF m.memory.size = <<0, 0, 0, 0>>      \* assert(memory_block_size > 0)
        THEN [m EXCEPT !.fault = "abort"]
        ELSE CASE seg.type \in {0, 2} ->
                     active(parse_expression(
                                PState([code |-> <<>>, stack_top |-> 0], 1, FALSE),
                                seg.offset, env))
               [] seg.type = 1 -> memcpy(<<0, 0, 0, 0>>)
               [] OTHER -> [m EXCEPT !.ret = 0 - 1]

\* parse_section: assert(section_type <= 11), then the parser of the
\* section_parser table.  The custom, table, start and element sections are
\* skipped over.
parse_section(m, sec, outcome) ==
    LET logged(r) == [r EXCEPT !.log = Append(@, [id |-> sec.id, ret |-> r.ret])]
        parse_memory(a, l) ==
            LET added(p) == [a EXCEPT !.memory = p.memory,
                                      !.ret = IF p.ret < 0 THEN 0 - 1 ELSE 0]
            IN  added(wasmbox_module_add_memory_page(a.memory, l))
        code(p) == [m EXCEPT !.functions = p.functions, !.ret = p.parsed]
        \* The loops of parse_memory_section and parse_data_section: they end
        \* at the first entry that fails.
        entry(a, e) ==
            IF a.ret # 0 \/ a.fault # "none" THEN a
            ELSE IF sec.id = 5 THEN parse_memory(a, e)
            ELSE parse_data(a, e, outcome)
        entries(s) ==
            LET loop[i \in 0..Len(s)] ==
                    IF i = 0 THEN m ELSE entry(loop[i - 1], s[i])
            IN  loop[Len(s)]
    IN  logged(CASE sec.id \notin 0..11 -> [m EXCEPT !.fault = "abort"]
                 [] sec.id = 5 -> entries(sec.limits)
                 [] sec.id = 6 -> parse_global_section(m, sec, outcome)
                 [] sec.id = 10 -> code(parse_module(sec.funcs, outcome))
                 [] sec.id = 11 -> entries(sec.segments)
                 [] OTHER -> m)

\* The loop of parse_module, `while (!is_end_of_stream) if (parse_section(...))
\* return -1;`: the module after the sections up to the first one that
\* fails.
parse_sections(sections, outcome) ==
    LET step(a, sec) == IF a.ret # 0 \/ a.fault # "none" THEN a
                        ELSE parse_section(a, sec, outcome)
        loop[i \in 0..Len(sections)] ==
            IF i = 0 THEN NewModule ELSE step(loop[i - 1], sections[i])
    IN  loop[Len(sections)]

\* wasmbox_load_module with the guard of the initializer run left out: the
\* global initializer function runs whatever parse_module returned.
LoadModuleInitAnyway(file, order, outcome) ==
    LET magic   == parse_magic(file.header, 0, order)
        version == parse_version(file.header, magic.index, order)
        init(m, parsed, run) ==
            [m EXCEPT !.parsed = parsed, !.globals = run.cells,
                      !.writes = run.writes, !.inits = 1,
                      !.fault = IF run.ok THEN "none" ELSE "undefined"]
        load(m, parsed) ==
            IF m.fault # "none" THEN m
            ELSE IF m.global_function.code # <<>>
            THEN init(m, parsed,
                      wasmbox_eval_function(m.global_function.code, 1,
                          [cells |-> m.globals, writes |-> <<>>, ok |-> TRUE], 0))
            ELSE [m EXCEPT !.parsed = parsed]
        parse_module_(m) == load(m, IF m.ret # 0 THEN 0 - 1 ELSE 0)
    IN  IF magic.ret # 0 \/ version.ret # 0
        THEN [NewModule EXCEPT !.parsed = 0 - 1]
        ELSE parse_module_(parse_sections(file.sections, outcome))

\* wasmbox_load_module: parse_module (the magic, the version, then
\* parse_section until the end of the stream, -1 at the first one that
\* fails), and when it returned 0 and mod->global_function has code, one run
\* of that code on mod->globals.
wasmbox_load_module(file, order, outcome) ==
    LET magic   == parse_magic(file.header, 0, order)
        version == parse_version(file.header, magic.index, order)
        init(m, parsed, run) ==
            [m EXCEPT !.parsed = parsed, !.globals = run.cells,
                      !.writes = run.writes, !.inits = 1,
                      !.fault = IF run.ok THEN "none" ELSE "undefined"]
        load(m, parsed) ==
            IF m.fault # "none" THEN m
            ELSE IF parsed = 0 /\ m.global_function.code # <<>>
            THEN init(m, parsed,
                      wasmbox_eval_function(m.global_function.code, 1,
                          [cells |-> m.globals, writes |-> <<>>, ok |-> TRUE], 0))
            ELSE [m EXCEPT !.parsed = parsed]
        parse_module_(m) == load(m, IF m.ret # 0 THEN 0 - 1 ELSE 0)
    IN  IF magic.ret # 0 \/ version.ret # 0
        THEN [NewModule EXCEPT !.parsed = 0 - 1]
        ELSE parse_module_(parse_sections(file.sections, outcome))

\* The host loads the file (test/runner.c): it goes on to
\* wasmbox_eval_module only when the loader returned 0.
\* A load that calls wasmbox_code_add (for a function, for the initializer
\* of a global or for the offset of an active data segment) may be stopped
\* at the realloc of the first call (see CodeAdd).
LoadFile ==
    /\ status = "file"
    /\ LET loaded(m) ==
               \/ /\ mod' = m
                  /\ memory' = m.memory
                  /\ status' = CASE m.fault = "abort" -> "aborted"
                                 [] m.fault = "undefined" -> "undefined"
                                 [] m.parsed = 0 -> "loaded"
                                 [] OTHER -> "loadfailed"
               \/ /\ \/ \E f \in DOMAIN m.functions : m.functions[f].code # <<>>
                     \/ m.global_function.code # <<>>
                     \/ \E i \in DOMAIN m.log :
                           /\ m.log[i].id = 11 /\ m.fault # "abort"
                           /\ \E k \in DOMAIN wasm.sections[i].segments :
                                 wasm.sections[i].segments[k].type \in {0, 2}
                  /\ mod' = mod /\ memory' = memory
                  /\ status' = "crashed"
       IN  loaded(wasmbox_load_module(wasm, host.order, build))
    /\ UNCHANGED <<wasm, stack, fp, pc, result, build, host, grown, calls,
                   lastret>>

\* The 8 bytes of a Wasm binary: "\0asm", version 1.
ValidHeader == <<0, 97, 115, 109, 1, 0, 0, 0>>

\* The files of the model, each with the byte order of the host that loads
\* it:
\*  - "header": every header of Headers (the valid one; the magic or the
\*    version with its bytes reversed; a magic of "XXXX"; version 2; a file
\*    of no bytes) in front of the code of _start() = i32.const 7; end, on
\*    both byte orders;
\*  - "sections": up to MaxSections sections of SectionKinds (a custom
\*    section; a memory of 1 page, at most 2; a memory with min > max; a
\*    global i32 = 5; a global with the mutability byte 2; the code of
\*    _start; a body no decoder takes; a data segment at offset 3; a segment
\*    of type 3; a section id above 11), and each of these sections between
\*    a global section and the code of _start;
\*  - "globals": one or two global sections in front of the code of _start,
\*    a global [mut, init] having the initializer `const c; end` (k and cell
\*    keep the type and the value the constant denotes);
\*  - "data": a memory of 1 page and a data section of one or two segments
\*    [type, offset, bytes], the offset expression being `i32.const o; end`;
\*  - "memory": no memory, or one of 1 or 2 pages, and _start() =
\*    i32.const 0; i32.const v; store offset=at; i32.const 0; load offset=at;
\*    end, the offset at being inside the block, across its end or behind it.
LoadScenarios ==
    LET File(kind, header, sections, order) ==
            [kind |-> kind, wasm |-> [header |-> header, sections |-> sections],
             args |-> <<>>, value |-> ZeroCell, order |-> order]
        Headers ==
            { ValidHeader,
              <<109, 115, 97, 0, 1, 0, 0, 0>>, <<0, 97, 115, 109, 0, 0, 0, 1>>,
              <<109, 115, 97, 0, 0, 0, 0, 1>>, <<88, 88, 88, 88, 1, 0, 0, 0>>,
              <<0, 97, 115, 109, 2, 0, 0, 0>>, <<>> }
        StartSection ==
            [id |-> 10,
             funcs |-> << Fn(0, 1, StartName, 0,
                             << TConst("i32.const", <<7>>), T0("end") >>) >>]
        Memory == [id |-> 5, limits |-> << [min |-> U32(1), max |-> U32(2)] >>]
        GlobalOf(c, mut) ==
            [mut |-> mut, init |-> << TConst(c.k, c.bytes), T0("end") >>,
             k |-> c.k, cell |-> c.cell]
        Five == [k |-> "i32.const", bytes |-> <<5>>, cell |-> CellOfNat(5)]
        Few == {c \in Constants : c.bytes \in {<<1>>, <<127>>, <<0, 0, 128, 63>>}}
        SegmentOf(type, o, bytes) ==
            [type |-> type, o |-> o, bytes |-> bytes,
             offset |-> << TConst("i32.const",
                                  EncodeSLEB(BitsOfCell(CellOfNat(o)))),
                           T0("end") >>]
        Segments ==
            {SegmentOf(0, o, b) : o \in {0, 3, 65534, 65535, 65536},
                                  b \in {<<>>, <<7>>, <<1, 2, 3>>}}
            \cup {SegmentOf(1, 0, <<8, 9>>), SegmentOf(2, 4, <<8, 9>>)}
        SectionKinds ==
            { [id |-> 0], Memory,
              [id |-> 5, limits |-> << [min |-> U32(2), max |-> U32(1)] >>],
              [id |-> 6, globals |-> << GlobalOf(Five, 0) >>],
              [id |-> 6, globals |-> << GlobalOf(Five, 2) >>],
              StartSection,
              [id |-> 10, funcs |-> BadModule],
              [id |-> 11, segments |-> << SegmentOf(0, 3, <<1, 2>>) >>],
              [id |-> 11, segments |-> << SegmentOf(3, 3, <<1, 2>>) >>],
              [id |-> 12] }
    IN  {File("header", h, IF h = <<>> THEN <<>> ELSE << StartSection >>, o) :
            h \in Headers, o \in {"little", "big"}}
        \cup {File("sections", ValidHeader, ss, "little") :
                 ss \in UNION {[1..n -> SectionKinds] : n \in 1..MaxSections}}
        \cup {File("sections", ValidHeader,
                   << [id |-> 6, globals |-> << GlobalOf(Five, 0) >>], sec,
                      StartSection >>, "little") : sec \in SectionKinds}
        \cup {File("globals", ValidHeader,
                   << [id |-> 6, globals |-> << GlobalOf(c1, 0), GlobalOf(c2, 1) >>],
                      StartSection >>, "little") : c1 \in Constants, c2 \in Few}
        \cup {File("globals", ValidHeader,
                   << [id |-> 6, globals |-> << GlobalOf(c1, 0) >>],
                      [id |-> 6, globals |-> << GlobalOf(Five, 0) >>],
                      StartSection >>, "little") : c1 \in Constants}
        \cup {File("memory", ValidHeader,
                   ms \o << [id |-> 10,
                             funcs |-> << Fn(0, 1, StartName, 0,
                                 << TConst("i32.const", <<0>>),
                                    TConst("i32.const", v),
                                    Tok("store", at, st, <<>>),
                                    TConst("i32.const", <<0>>),
                                    Tok("load", at, ld, <<>>),
                                    T0("end") >>) >>] >>,
                   "little") :
                 ms \in {<<>>, << Memory >>,
                         << [id |-> 5,
                             limits |-> << [min |-> U32(2), max |-> U32(2)] >>] >>},
                 v \in {<<7>>, EncodeSLEB(BitsOfCell(CellOfNat(4660)))},
                 at \in {0, 5, 65532, 65533, 65535, 65536},
                 st \in {"I32_STORE", "I32_STORE8"},
                 ld \in {"I32_LOAD", "I32_LOAD8_U"}}
        \cup {File("globalops", ValidHeader,
                   << [id |-> 6,
                       globals |-> [j \in 1..n |->
                           GlobalOf([k |-> "i32.const", bytes |-> <<20 + j>>,
                                     cell |-> CellOfNat(20 + j)], 1)]],
                      [id |-> 10,
                       funcs |-> << Fn(0, 1, StartName, 0,
                           << TConst("i32.const", <<9>>), TX("global.set", i),
                              TX("global.get", i), T0("end") >>) >>] >>,
                   "little") :
                 n \in {2, 4}, i \in {0, 1}}
        \cup {File("narrow", ValidHeader,
                   << Memory,
                      [id |-> 10,
                       funcs |-> << Fn(0, 1, StartName, 0,
                           << TConst("i64.const",
                                     EncodeSLEB(BitsOfCell(<<1, 1, 1, 1, 1, 1, 1, 1>>))),
                              Tok("store", at, "I64_STORE", <<>>),
                              TConst(IF st \in {"I32_STORE8", "I32_STORE16"}
                                     THEN "i32.const" ELSE "i64.const",
                                     EncodeSLEB(BitsOfCell(
                                         <<52, 18, 86, 7, 0, 0, 0, 0>>))),
                              Tok("store", at, st, <<>>),
                              T0("end") >>) >>] >>,
                   "little") :
                 at \in {0, 5},
                 st \in {"I32_STORE8", "I32_STORE16", "I64_STORE8",
                         "I64_STORE16", "I64_STORE32"}}
        \cup {File("grow", ValidHeader,
                   << Memory,
                      [id |-> 10,
                       funcs |-> << Fn(0, 1, StartName, 0,
                           << TConst("i32.const", <<n>>), T0("memory.grow"),
                              T0("memory.size"), T0("end") >>) >>] >>,
                   "little") : n \in {0, 1}}
        \cup {File("data", ValidHeader,
                   << Memory, [id |-> 11, segments |-> ss], StartSection >>,
                   "little") :
                 ss \in {<<a>> : a \in Segments}
                       \cup {<<a, b>> : a \in Segments,
                                        b \in {SegmentOf(0, 4, <<5, 6>>),
                                               SegmentOf(0, 65535, <<5, 6>>)}}}

\* The host before wasmbox_load_module.  The constants of the globals are
\* decoded under every outcome of the undefined shift.
InitLoad ==
    /\ \E sc \in LoadScenarios :
          /\ wasm = sc.wasm
          /\ host = sc
          /\ build \in IF sc.kind = "globals" THEN UndefinedShiftOutcomes
                       ELSE {"wrap"}
    /\ stack = Slab(<<>>)
    /\ mod = NewModule
    /\ fp = 0 /\ pc = 0
    /\ status = "file"
    /\ result = NoResult
    /\ memory = NoMemory /\ grown = NoGrow
    /\ calls = <<>> /\ lastret = NoReturn

\* The end of the host program (test/runner.c): after wasmbox_eval_module
\* returned a value >= 0, wasmbox_module_dispose and then
\* wasmbox_allocator_report_statics.  `allocated` adds up the sizes handed to
\* wasmbox_malloc while the module was loaded (sizes of an LP64 build: a
\* pointer and a wasmbox_value_t are 8 bytes, a wasmbox_function_t and a
\* wasmbox_code_t 32); `freed` adds up those of the blocks
\* wasmbox_module_dispose hands to wasmbox_free.  wasmbox_free reads the size
\* at ((wasm_s32_t *) ptr)[-1] without looking at ptr: handed NULL it reads
\* address -4 and gives free() that address, which ends the process.  The
\* report exits with -1 when the two sums differ.
Dispose ==
    /\ status = "done" /\ result >= 0
    /\ LET Sum(size(_), n) ==
               LET sum[i \in 0..n] == IF i = 0 THEN 0 ELSE sum[i - 1] + size(i)
               IN  sum[n]
           fs == mod.functions
           pointers == 8 * 4        \* sizeof(mod->types) * MODULE_TYPES_INIT_SIZE
           function == 32           \* sizeof(wasmbox_function_t)
           code == 32 * 4           \* sizeof(*func->code) * MODULE_CODE_INIT_SIZE
           type(i) == 4 + 8 * (fs[i].type.argument_size + fs[i].type.return_size)
           named(i) == fs[i].name # NoName
           name(i) == IF named(i) THEN 4 + Len(fs[i].name) ELSE 0
           codeOf(i) == IF fs[i].code # <<>> THEN code ELSE 0
           \* the global sections parsed: each one with len > 0 allocates
           \* mod->globals anew
           globalsOf(i) ==
               IF wasm.sections[i].id = 6
               THEN 8 * Len(wasm.sections[i].globals) ELSE 0
           global == mod.global_function.code # <<>>
           globalName == 4 + 10     \* sizeof(*global->name) + strlen("__global__")
           block == mod.memory.block_bytes[1] + 256 * mod.memory.block_bytes[2]
                    + 65536 * mod.memory.block_bytes[3]
                    + 16777216 * mod.memory.block_bytes[4]
           allocated ==
               (IF fs # <<>> THEN 2 * pointers ELSE 0)
               + Sum(type, Len(fs)) + Len(fs) * function + Sum(name, Len(fs))
               + Sum(codeOf, Len(fs))
               + (IF global THEN function + globalName + code ELSE 0)
               + Sum(globalsOf, Len(mod.log))
               + (IF mod.memory.declared THEN block ELSE 0)
           freed ==
               Sum(type, Len(fs)) + (IF fs # <<>> THEN 2 * pointers ELSE 0)
               + Sum(name, Len(fs)) + Len(fs) * function
               + (IF global THEN function ELSE 0)
               + (IF mod.memory.declared THEN block ELSE 0)
           null == \/ fs = <<>>
                   \/ \E i \in 1..Len(fs) : ~named(i)
                   \/ ~global
                   \/ ~mod.memory.declared
       IN  /\ host' = [allocated |-> allocated, freed |-> freed] @@ host
           /\ status' = IF null THEN "killed"
                        ELSE IF allocated # freed THEN "exited"
                        ELSE "checked"
    /\ UNCHANGED <<wasm, mod, stack, fp, pc, result, build, memory, grown, calls,
                   lastret>>

NextLoad ==
    \/ LoadFile
    \/ EvalModule
    \/ LoadConst
    \/ Move
    \/ MemoryOp
    \/ MemorySize
    \/ GlobalGet
    \/ GlobalSet
    \/ Return
    \/ Exit
    \/ Dispose

SpecLoad == InitLoad /\ [][NextLoad]_vars

-----------------------------------------------------------------------------
(* Register code given to the interpreter (interpreter.c) *)

\* CASE(JUMP_TABLE): op0 is the table [size, labels], labels holding size
\* code addresses, op1 the default target, op2 the register of the index.
\* The test is `table->size < index`: then labels[index], an element behind
\* the array, is taken as the target, which is undefined; otherwise the
\* default target is taken.
JumpTable ==
    /\ Running /\ Cur.op = "JUMP_TABLE"
    /\ IF LtU32(U32(Cur.op0.size), Low(Reg(Cur.op2), 4))
       THEN status' = "undefined" /\ pc' = pc
       ELSE status' = status /\ pc' = Cur.op1
    /\ UNCHANGED <<wasm, mod, stack, fp, result, build, host, memory, grown,
                   calls, lastret>>

\* The rewrite with the return count cleared
DynamicCallDropsCount ==
    /\ Running /\ Cur.op = "DYNAMIC_CALL"
    /\ IF Cur.op1 \in 0..(Len(mod.functions) - 1)
       THEN /\ mod' = [mod EXCEPT
                         !.functions[FuncOf(pc) + 1].code[IndexOf(pc) + 1] =
                             [@ EXCEPT !.op = "STATIC_CALL", !.op2 = 0]]
            /\ status' = status
       ELSE mod' = mod /\ status' = "undefined"
    /\ UNCHANGED <<wasm, stack, fp, pc, result, build, host, memory, grown,
                   calls, lastret>>

\* CASE(DYNAMIC_CALL): func = mod->functions[op1.index]; the instruction is
\* overwritten with opcode STATIC_CALL and op1.func = func (a function is
\* denoted by its index, as in STATIC_CALL), and dispatched again: code is
\* not advanced.  An index behind mod->functions is undefined.
DynamicCall ==
    /\ Running /\ Cur.op = "DYNAMIC_CALL"
    /\ IF Cur.op1 \in 0..(Len(mod.functions) - 1)
       THEN /\ mod' = [mod EXCEPT
                         !.functions[FuncOf(pc) + 1].code[IndexOf(pc) + 1].op =
                             "STATIC_CALL"]
            /\ status' = status
       ELSE mod' = mod /\ status' = "undefined"
    /\ UNCHANGED <<wasm, stack, fp, pc, result, build, host, memory, grown,
                   calls, lastret>>

\* A module of register code and the arguments of the host:
\*  - "jumptable": _start(i) = JUMP_TABLE on its argument with n labels;
\*    the default target stores 100, label k stores 10 + k, in the result;
\*  - "dyncall": _start() calls g() c times and returns its last result;
\*    g() = DYNAMIC_CALL of function t, h() = 5, h2() = 6.
InitCode ==
    /\ \E sc \in
          LET F(name, args, rets, code) ==
                  [code |-> code, name |-> name, locals |-> 0, stack_top |-> 0,
                   type |-> [argument_size |-> args, return_size |-> rets]]
              Const(v) ==
                  Code("LOAD_CONST_I32", 0 - 1, NoOperand, NoOperand, CellOfNat(v))
              Ret == Code("RETURN", NoOperand, NoOperand, NoOperand, ZeroCell)
              Table(n) == [size |-> n,
                           labels |-> [k \in 1..n |-> CodeAddr(0, 2 * k + 1)]]
              Targets[n \in 0..(MaxLabels + 1)] ==
                  IF n = 0 THEN << Const(100), Ret >>
                  ELSE Targets[n - 1] \o << Const(9 + n), Ret >>
              JumpModule(n) ==
                  << F(StartName, 1, 1,
                       << Code("JUMP_TABLE", Table(n), CodeAddr(0, 1), 2, ZeroCell) >>
                       \o Targets[n]) >>
              Calls[c \in 0..(MaxCalls + 1)] ==
                  IF c = 0 THEN <<>>
                  ELSE Append(Calls[c - 1],
                              Code("STATIC_CALL", 1 + c, 1, 1, ZeroCell))
              CallModule(c, t) ==
                  << F(StartName, 0, 1,
                       Calls[c] \o << Code("MOVE", 0 - 1, 1 + c, NoOperand, ZeroCell),
                                      Ret >>),
                     F(NoName, 0, 1,
                       << Code("DYNAMIC_CALL", 2, t, 1, ZeroCell),
                          Code("MOVE", 0 - 1, 2, NoOperand, ZeroCell), Ret >>),
                     F(NoName, 0, 1, << Const(5), Ret >>),
                     F(NoName, 0, 1, << Const(6), Ret >>) >>
          IN  {[kind |-> "jumptable", wasm |-> <<>>, args |-> <<i>>,
                value |-> CellOfNat(n), code |-> JumpModule(n)] :
                  n \in 0..MaxLabels,
                  i \in {CellOfNat(k) : k \in 0..(MaxLabels + 1)}
                        \cup {CellOfS32(0 - 1)}}
              \cup {[kind |-> "dyncall", wasm |-> <<>>, args |-> <<>>,
                     value |-> CellOfNat(t), code |-> CallModule(c, t)] :
                       c \in 1..MaxCalls, t \in {2, 3, 4}} :
          /\ host = [kind |-> sc.kind, wasm |-> sc.wasm, args |-> sc.args,
                     value |-> sc.value]
          /\ wasm = sc.wasm
          /\ stack = Slab(sc.args)
          /\ mod = [functions |-> sc.code, parsed |-> 0]
    /\ build = "wrap"
    /\ fp = 0 /\ pc = 0
    /\ status = "loaded"
    /\ result = NoResult
    /\ memory = NoMemory /\ grown = NoGrow
    /\ calls = <<>> /\ lastret = NoReturn

NextCode ==
    \/ EvalModule
    \/ LoadConst
    \/ Move
    \/ JumpTable
    \/ DynamicCall
    \/ StaticCall
    \/ Return
    \/ Exit

SpecCode == InitCode /\ [][NextCode]_vars

-----------------------------------------------------------------------------
(* The LEB128 decoders on their own (test/leb128_test.c) *)

\* The buffers of the test: the encoding of the integer n (its bits), k bytes
\* long, with `at` bytes in front of it and up to MaxPad bytes behind it; the
\* cursor idx is at the first byte of the encoding and len is the length of
\* the buffer.  The integers are 2^j and 2^(j+1) - 1 (unsigned), 2^j and
\* -2^j (signed) for the bit positions j at which the length of the encoding
\* changes, and the vectors of the test: 624485, -123456, 255, 0xDEADBEAF.
\* The buffers "ucut" and "scut" end inside the encoding of a vector, after
\* m of its bytes (every one with the continuation bit), m = 0 included:
\* the cursor is then at len.
InitLeb ==
    /\ \E sc \in
          LET Steps == {0, 6, 7, 13, 14, 27, 28, 34, 35, 41, 42, 48, 49, 55, 56,
                        62, 63}
              Bits(c) == BitsOfCell(c)
              Vectors == {Bits(<<101, 135, 9, 0, 0, 0, 0, 0>>),
                          Bits(<<175, 190, 173, 222, 0, 0, 0, 0>>),
                          Bits(<<255, 0, 0, 0, 0, 0, 0, 0>>)}
              Top(S) == CHOOSE j \in S : \A i \in S : i <= j
              ULen(S) == IF S = {} THEN 1 ELSE Top(S) \div 7 + 1
              EncodeULEB(S) ==
                  [i \in 1..ULen(S) |->
                      ByteOfBits(S \cap ((7 * (i - 1))..(7 * i - 1)), 7 * (i - 1))
                      + (IF i < ULen(S) THEN 128 ELSE 0)]
              Buffer(kind, n, bytes, at, pad) ==
                  [kind |-> kind, wasm |-> [i \in 1..at |-> 255] \o bytes
                                           \o [i \in 1..pad |-> 255],
                   args |-> <<>>, value |-> ZeroCell, n |-> n, k |-> Len(bytes),
                   at |-> at, idx |-> at, len |-> at + Len(bytes) + pad,
                   got |-> {}]
          IN  {Buffer("uleb", n, EncodeULEB(n), at, pad) :
                  n \in {{j} : j \in Steps} \cup {0..j : j \in Steps}
                        \cup Vectors \cup {{}},
                  at \in 0..MaxPad, pad \in 0..MaxPad}
              \cup {Buffer("sleb", n, EncodeSLEB(n), at, pad) :
                       n \in {{j} : j \in Steps} \cup {j..63 : j \in Steps}
                             \cup Vectors
                             \cup {Bits(<<192, 29, 254, 255, 255, 255, 255, 255>>)},
                       at \in 0..MaxPad, pad \in 0..MaxPad}
              \cup {Buffer("ucut", n, SubSeq(EncodeULEB(n), 1, m), at, 0) :
                       n \in Vectors, m \in 0..1, at \in 0..MaxPad}
              \cup {Buffer("scut", n, SubSeq(EncodeSLEB(n), 1, m), at, 0) :
                       n \in Vectors, m \in 0..1, at \in 0..MaxPad} :
          /\ host = sc
          /\ wasm = sc.wasm
          /\ build \in IF sc.kind \in {"sleb", "scut"} THEN UndefinedShiftOutcomes
                       ELSE {"wrap"}
    /\ stack = <<>>
    /\ mod = [functions |-> <<>>, parsed |-> 0]
    /\ fp = 0 /\ pc = 0
    /\ status = "encoded"
    /\ result = NoResult
    /\ memory = NoMemory /\ grown = NoGrow
    /\ calls = <<>> /\ lastret = NoReturn

\* One call of a decoder, as the test and the parsers make it: p is
\* data + idx, the cursor is passed by reference.  The byte behind the
\* buffer, at data[len], is whatever the memory holds there.
ParseLeb128 ==
    /\ status = "encoded"
    /\ \E unknown \in {0, 255} :
          LET p == SubSeq(wasm, host.idx + 1, Len(wasm)) \o <<unknown>>
              r == IF host.kind \in {"uleb", "ucut"}
                   THEN wasmbox_parse_unsigned_leb128(p, host.idx, host.len)
                   ELSE wasmbox_parse_signed_leb128(p, host.idx, host.len, build)
          IN  host' = [host EXCEPT !.idx = r.idx, !.got = r.result]
    /\ status' = "decoded"
    /\ UNCHANGED <<wasm, mod, stack, fp, pc, result, build, memory, grown,
                   calls, lastret>>

SpecLeb == InitLeb /\ [][ParseLeb128]_vars

-----------------------------------------------------------------------------
(* The section loop of parse_module on the bytes of the file                *)
(* (wasmbox.c 989-1012, input-stream.c).  The cursor ins->index is a        *)
(* wasm_u32_t, kept as its 4 bytes; ins->length is the number of bytes of  *)
(* the file.  The files are a header followed by one or two sections that  *)
(* the loader skips (custom, table), with bodies of zero bytes; the size   *)
(* declared by the last section is the size of its body, or more than the  *)
(* bytes that are left, or close to 2^32.                                   *)

\* The stream after parse_magic and parse_version have read the header.
InitStream ==
    /\ \E sc \in
          LET Top(S) == CHOOSE j \in S : \A i \in S : i <= j
              ULen(S) == IF S = {} THEN 1 ELSE Top(S) \div 7 + 1
              EncodeULEB(S) ==
                  [i \in 1..ULen(S) |->
                      ByteOfBits(S \cap ((7 * (i - 1))..(7 * i - 1)), 7 * (i - 1))
                      + (IF i < ULen(S) THEN 128 ELSE 0)]
              Zeros(n) == [i \in 1..n |-> 0]
              Section(id, size, n) == <<id>> \o EncodeULEB(size) \o Zeros(n)
              Size(n) == BitsOfCell(CellOfNat(n))
              \* 2^32 - k
              Below(k) == BitsOfCell(<<256 - k, 255, 255, 255, 0, 0, 0, 0>>)
              Firsts == {<<>>} \cup {Section(id, Size(n), n) : id \in {0, 4},
                                                               n \in {0, 2}}
              File(first, id, size, n, truncated) ==
                  [kind |-> "stream",
                   wasm |-> ValidHeader \o first \o Section(id, size, n),
                   args |-> <<>>, value |-> ZeroCell,
                   index |-> U32(Len(ValidHeader)), truncated |-> truncated]
          IN  {File(first, id, Size(n + more), n, more > 0) :
                  first \in Firsts, id \in {0, 4, 12}, n \in {0, 2},
                  more \in {0, 1, 3}}
              \cup UNION {{File(first, id, Below(back), n, TRUE) :
                              id \in {0, 4}, n \in {0, 2},
                              back \in {6, 6 + Len(first)}} : first \in Firsts} :
          /\ host = sc /\ wasm = sc.wasm
    /\ build = "wrap"
    /\ stack = <<>> /\ mod = [functions |-> <<>>, parsed |-> 0 - 1]
    /\ fp = 0 /\ pc = 0
    /\ status = "sections" /\ result = NoResult
    /\ memory = NoMemory /\ grown = NoGrow /\ calls = <<>> /\ lastret = NoReturn

\* One iteration of `while (!wasmbox_input_stream_is_end_of_stream(ins))`:
\* parse_section reads the section id and the section size, then
\* parse_custom_section (parse_table_section, parse_start_section,
\* parse_element_section) runs dump_binary over section_size bytes from the
\* cursor and adds section_size to the cursor, a wasm_u32_t.  dump_binary
\* does not look at ins->length: when the declared size reaches past the
\* end of the buffer it reads behind it, and the process either survives
\* the read or is killed.  The byte the size decoder may read at
\* data[length] is unknown.
SkipSection ==
    /\ status = "sections"
    /\ LtU32(host.index, U32(Len(wasm)))
    /\ LET length == Len(wasm)
           index  == host.index[1]
           section_type == wasm[index + 1]
       IN  IF section_type > 11            \* assert(section_type <= 11)
           THEN status' = "aborted" /\ host' = host
           ELSE /\ section_type \in {0, 4, 8, 9}
                /\ \E unknown \in {0, 255} :
                      LET r == wasmbox_parse_unsigned_leb128(
                                   SubSeq(wasm, index + 2, length) \o <<unknown>>,
                                   index + 1, length)
                          section_size == r.result
                          low  == ByteOfBits(section_size, 0)
                          past == \/ \E j \in section_size : j >= 8
                                  \/ r.idx + low > length
                          next == Add32(U32(r.idx), Low(CellOfBits(section_size), 4), 0)
                      IN  \/ host' = [host EXCEPT !.index = next] /\ status' = status
                          \/ past /\ status' = "killed" /\ host' = host
    /\ UNCHANGED <<wasm, mod, stack, fp, pc, result, build, memory, grown, calls,
                   lastret>>

\* The loop ends at the end of the stream: parse_module returns 0.
EndOfStream ==
    /\ status = "sections"
    /\ ~LtU32(host.index, U32(Len(wasm)))
    /\ mod' = [mod EXCEPT !.parsed = 0]
    /\ status' = "loaded"
    /\ UNCHANGED <<wasm, stack, fp, pc, result, build, host, memory, grown, calls,
                   lastret>>

SpecStream == InitStream /\ [][SkipSection \/ EndOfStream]_vars

-----------------------------------------------------------------------------
(* The instruction buffer of a function (wasmbox.c 80-91).  code_size and  *)
(* code_capacity are wasm_u16_t.  `code` says where func->code comes from:  *)
(* "null", "wasmbox_malloc" (4 bytes into a block of malloc) or "realloc";  *)
(* room is the number of instructions the block at func->code has room     *)
(* for, kept the number of leading instructions of the function that are   *)
(* in it.                                                                   *)

\* sizeof(wasmbox_code_t): the header and three operands of 8 bytes.
SizeofCode == 32

\* parse_function_section: the function comes zero-filled from
\* wasmbox_malloc.
InitAdd ==
    /\ host = [kind |-> "codeadd", wasm |-> <<>>, args |-> <<>>, value |-> ZeroCell,
               code |-> "null", code_size |-> 0, code_capacity |-> 0,
               room |-> 0, kept |-> 0]
    /\ wasm = <<>> /\ build = "wrap"
    /\ stack = <<>> /\ mod = [functions |-> <<>>, parsed |-> 0]
    /\ fp = 0 /\ pc = 0
    /\ status = "adding" /\ result = NoResult
    /\ memory = NoMemory /\ grown = NoGrow /\ calls = <<>> /\ lastret = NoReturn

\* wasmbox_code_add(func, code).  The capacity is doubled when
\* code_size + sizeof(wasmbox_code_t) >= code_capacity, and the block is
\* resized with realloc, not wasmbox_realloc:
\*  - the pointer of the first call comes from wasmbox_malloc and is not
\*    one malloc returned, which is undefined: the process is stopped, or
\*    realloc hands out a block of the size asked for;
\*  - when the doubled capacity is 0 in 16 bits, realloc(code, 0) frees the
\*    block and returns NULL or a block of no bytes.
\* memcpy then writes code[code_size++]; a write outside the block is
\* undefined: the process is stopped, or goes on with the instruction
\* somewhere else.
CodeAdd ==
    /\ status = "adding"
    /\ host.code_size < MaxCode
    /\ LET f1 == IF host.code = "null"
                 THEN [host EXCEPT !.code = "wasmbox_malloc", !.code_size = 0,
                                   !.code_capacity = 4, !.room = 4, !.kept = 0]
                 ELSE host
           grow == f1.code_size + SizeofCode >= f1.code_capacity
           capacity == (f1.code_capacity * 2) % 65536
           store(f) ==
               LET k  == f.code_size
                   f3 == [f EXCEPT !.code_size = (k + 1) % 65536]
               IN  IF k < f.room
                   THEN /\ host' = [f3 EXCEPT !.kept = IF @ = k THEN k + 1 ELSE @]
                        /\ status' = status
                   ELSE \/ host' = f3 /\ status' = status
                        \/ host' = f3 /\ status' = "killed"
           resized(f, ptr) ==
               [f EXCEPT !.code = ptr, !.code_capacity = capacity,
                         !.room = capacity,
                         !.kept = IF @ < capacity THEN @ ELSE capacity]
       IN  IF ~grow THEN store(f1)
           ELSE IF f1.code = "wasmbox_malloc"
           THEN \/ store(resized(f1, "realloc"))
                \/ /\ status' = "killed"
                   /\ host' = [f1 EXCEPT !.code_capacity = capacity]
           ELSE IF capacity = 0
           THEN \E ptr \in {"null", "realloc"} : store(resized(f1, ptr))
           ELSE store(resized(f1, "realloc"))
    /\ UNCHANGED <<wasm, mod, stack, fp, pc, result, build, memory, grown, calls,
                   lastret>>

SpecAdd == InitAdd /\ [][CodeAdd]_vars

-----------------------------------------------------------------------------
(* Properties *)

\* C1: after every RETURN that ends a call dispatched by a STATIC_CALL, the
\* frame pointer is the one in effect at the dispatch and the code pointer
\* is the instruction after that STATIC_CALL.
FrameBalance ==
    lastret.valid => /\ lastret.fp = lastret.due_fp
                     /\ lastret.pc = lastret.due_pc

RECURSIVE Factorial(_)
Factorial(n) == IF n <= 1 THEN 1 ELSE n * Factorial(n - 1)

\* C2: the run of the recursive factorial with argument x never leaves the
\* defined behaviour of the program, and when it has ended i32 slot 0 holds
\* x!.
FactorialResult ==
    host.kind = "factorial" =>
        /\ status # "undefined"
        /\ status = "done" =>
              /\ result = 0
              /\ Low(stack[0], 4) = Low(CellOfNat(Factorial(NatOfCell(host.value))), 4)

\* C3: after a successful wasmbox_eval_module the R return values of _start
\* are in slots 0 .. R-1, the first one in slot 0 (R = 2: the results 11 and
\* 22; R = 1: the result 7 of the call chain).
ReturnSlots ==
    (status = "done" /\ result = 0) =>
        /\ host.kind = "tworeturns" =>
              /\ Low(stack[0], 4) = <<11, 0, 0, 0>>
              /\ Low(stack[1], 4) = <<22, 0, 0, 0>>
        /\ host.kind = "callchain" => Low(stack[0], 4) = <<7, 0, 0, 0>>

ConstBytes(k) == IF k \in {"i32.const", "f32.const"} THEN 4 ELSE 8

\* C4: fn() = const c; end runs to its end and leaves in slot 0 the bits of
\* c, 32 or 64 of them by the type of the constant.
ConstRoundTrip ==
    host.kind = "const" =>
        /\ status # "undefined"
        /\ status = "done" =>
              LET w == ConstBytes(host.wasm[1].body[1].k)
              IN  Low(stack[0], w) = Low(host.value, w)

\* The reinterpret instruction of a reinterpret or round-trip module.
HostOp == host.wasm[1].body[2].op

\* C5, the results: the function that reinterprets its argument, once or
\* there and back, returns the bit pattern of the argument.
ReinterpretResult ==
    (host.kind \in {"reinterpret", "roundtrip"} /\ status = "done") =>
        Low(stack[0], ReinterpretWidth(HostOp)) = Low(host.value, ReinterpretWidth(HostOp))

\* C5: every reinterpret handler leaves in its destination the 32 or 64
\* bits of its operand, and the four round trips return the original
\* pattern.
ReinterpretCopies ==
    /\ [][(Running /\ Cur.op \in ReinterpretOps /\ pc' = pc + 1) =>
             Low(stack'[fp + Cur.op0], ReinterpretWidth(Cur.op))
                 = Low(stack[fp + Cur.op1], ReinterpretWidth(Cur.op))]_vars
    /\ []ReinterpretResult

\* C5 witness: the round trip i64 -> f64 -> i64 has returned a NaN pattern
\* with a payload.
ReinterpretRoundTripDone ==
    /\ host.kind = "roundtrip"
    /\ HostOp = "F64_REINTERPRET_I64"
    /\ host.value = <<1, 2, 3, 4, 5, 6, 248, 127>>
    /\ status = "done"
    /\ stack[0] = host.value

\* C6: in the functions with a br, no instruction between the br and the
\* end of the block it targets is executed (the i32.const instructions
\* are such instructions), so the local keeps the value of the argument.
BrSkips ==
    host.kind = "br" =>
        /\ ~(Running /\ Cur.op = "LOAD_CONST_I32")
        /\ status = "done" => Low(stack[0], 4) = Low(host.value, 4)

NoStartExported == \A i \in 1..Len(wasm) : wasm[i].name # StartName

\* C10: for a module without an exported _start, wasmbox_eval_module
\* returns a negative code, no instruction is executed and every slot of the
\* slab stays as the host left it.
NoStartRejected ==
    NoStartExported =>
        /\ stack = Slab(host.args)
        /\ status # "run" /\ fp = 0 /\ pc = 0 /\ calls = <<>>
        /\ status = "done" => result < 0

\* C10 witness: wasmbox_eval_module has returned -1 for the module whose
\* only export is "_start2", with an argument in the slab.
NoStartReturned ==
    /\ NoStartExported
    /\ wasm[2].name = <<95, 115, 116, 97, 114, 116, 50>>
    /\ host.args = <<CellOfNat(3)>>
    /\ status = "done"
    /\ result = 0 - 1

\* a + b exceeds 2^32 - 1.
Overflows32(a, b) == LtU32(Add32(a, b, 0), a)

HeaderVerified ==
    (host.kind = "header" /\ status # "file") =>
        ((mod.parsed # 0) <=> (wasm.header # ValidHeader))

\* C12: when a section parser reports failure, wasmbox_load_module returns
\* nonzero, the failing section is the last one handed to a section parser
\* (the sections parsed are a prefix of the file), and the global
\* initializer function is not run: no slot of mod->globals is written.
SectionFailureStops ==
    LET n == Len(mod.log)
    IN  (\E i \in 1..n : mod.log[i].ret # 0) =>
            /\ mod.parsed # 0 /\ status = "loadfailed"
            /\ \A i \in 1..n : /\ mod.log[i].id = wasm.sections[i].id
                               /\ mod.log[i].ret # 0 <=> i = n
            /\ mod.inits = 0 /\ mod.writes = <<>>
            /\ \A g \in 1..Len(mod.globals) : mod.globals[g] = ZeroCell

\* C12 witness: the load has failed in the second of three sections, after
\* a global section whose initializer is in mod->global_function, and the
\* third section was not parsed.
SectionFailureSeen ==
    /\ status = "loadfailed"
    /\ Len(wasm.sections) = 3 /\ Len(mod.log) = 2
    /\ mod.log[1].id = 6 /\ mod.log[1].ret = 0 /\ mod.log[2].ret # 0
    /\ mod.global_function.code # <<>>
    /\ mod.inits = 0

\* C17: a file of the "globals" family is loaded within the defined
\* behaviour of the loader, and once wasmbox_load_module has returned 0 for
\* it (also while and after _start runs), mod->globals has one slot for each
\* of the N globals declared, slot i holds the value of the i-th
\* initializer, and each slot was written exactly once, by the one run of
\* the global initializer function.
GlobalsInitialized ==
    host.kind = "globals" =>
        LET secs == wasm.sections
            decl == IF secs[2].id = 6 THEN secs[1].globals \o secs[2].globals
                    ELSE secs[1].globals
        IN  /\ status # "undefined"
            /\ status = "file" => mod.inits = 0
            /\ status \in {"loaded", "run", "done"} =>
                  /\ mod.parsed = 0 /\ mod.inits = 1
                  /\ Len(mod.globals) = Len(decl)
                  /\ \A i \in 1..Len(decl) :
                        /\ Low(mod.globals[i], ConstBytes(decl[i].k))
                              = Low(decl[i].cell, ConstBytes(decl[i].k))
                        /\ Cardinality({j \in 1..Len(mod.writes) :
                                           mod.writes[j] = i - 1}) = 1

DivisionTraps ==
    [][(/\ Running /\ Cur.op \in DivOps
        /\ \/ Low(Reg(Cur.op2), 4) = <<0, 0, 0, 0>>
           \/ /\ Cur.op = "I32_DIV_S"
              /\ Low(Reg(Cur.op1), 4) = <<0, 0, 0, 128>>
              /\ Low(Reg(Cur.op2), 4) = <<255, 255, 255, 255>>)
       => (status' # "run" /\ stack' = stack)]_vars

\* C14: a load or store whose byte range [offset, offset + width) is not
\* entirely inside the linear memory (memory_block_size x 65536 bytes)
\* traps: the run ends, and no byte outside the block is read or written.
MemoryAccessChecked ==
    [][(/\ Running /\ Cur.op \in DOMAIN MemoryOps
        /\ LET at == IF MemoryOps[Cur.op].k = "load" THEN Cur.op1 ELSE Cur.op0
           IN  LtU32(memory.block_bytes, U32(at + MemoryOps[Cur.op].w)))
       => (status' # "run" /\ stack' = stack /\ memory' = memory)]_vars

\* C15: for an `unreachable` of a function body the translator has emitted
\* an UNREACHABLE instruction, and the run stops there, returning to the
\* host: no instruction after the `unreachable` has an effect on the stack.
UnreachableTraps ==
    host.kind = "unreachable" =>
        /\ status \in {"loaded", "run", "done"} =>
               mod.functions[1].code[1].op = "UNREACHABLE"
        /\ status = "done" => stack[0] = ZeroCell

\* C16: when the run reaches an opcode the interpreter does not implement
\* (I32_POPCNT, I64_POPCNT), wasmbox_eval_module reports the failure to the
\* host with a negative result instead of 0.
NotImplementedSurfaced ==
    (host.kind = "popcnt" /\ status = "done") => result < 0

\* C19: the first execution of a DYNAMIC_CALL rewrites the instruction in
\* place to STATIC_CALL with the resolved function, the same frame-base
\* register and the same return count, and the call is what is dispatched
\* next; an instruction that is STATIC_CALL stays the same STATIC_CALL, so
\* the rewrite happens once.
DynamicCallRewritesOnce ==
    [][/\ (/\ Running /\ Cur.op = "DYNAMIC_CALL"
           /\ Cur.op1 \in 0..(Len(mod.functions) - 1))
          => /\ pc' = pc /\ fp' = fp /\ stack' = stack /\ status' = "run"
             /\ mod' = [mod EXCEPT
                          !.functions[FuncOf(pc) + 1].code[IndexOf(pc) + 1] =
                              [Cur EXCEPT !.op = "STATIC_CALL"]]
       /\ \A f \in 1..Len(mod.functions) :
             \A k \in 1..Len(mod.functions[f].code) :
                mod.functions[f].code[k].op = "STATIC_CALL"
                    => mod'.functions[f].code[k] = mod.functions[f].code[k]]_vars

\* C19, witness: the callee runs for the second time, called through the
\* instruction of g that was rewritten by its first execution.
DynamicCallRunAgain ==
    /\ host.kind = "dyncall"
    /\ Len(calls) = 2
    /\ calls[1].ret = CodeAddr(0, 2)
    /\ calls[2].ret = CodeAddr(1, 1)
    /\ pc = CodeAddr(NatOfCell(host.value), 0)
    /\ mod.functions[2].code[1] = Code("STATIC_CALL", 2, NatOfCell(host.value), 1,
                                       ZeroCell)

\* C20: JUMP_TABLE with the index i read from its register goes to
\* table.labels[i] when i < table.size and to the default target otherwise;
\* labels is never indexed at or behind table.size.
JumpTableSelects ==
    [][(Running /\ Cur.op = "JUMP_TABLE")
       => /\ status' = "run"
          /\ pc' = IF LtU32(Low(Reg(Cur.op2), 4), U32(Cur.op0.size))
                   THEN Cur.op0.labels[Reg(Cur.op2)[1] + 1]
                   ELSE Cur.op1]_vars

\* C21: for every unsigned 64-bit integer n with a ULEB128 encoding of k
\* bytes, wasmbox_parse_unsigned_leb128 with the cursor at the first byte
\* of the encoding returns n and leaves the cursor advanced by exactly k.
UnsignedLebDecodes ==
    (status = "decoded" /\ host.kind = "uleb") =>
        host.got = host.n /\ host.idx = host.at + host.k

\* C21, witness: E5 8E 26 has been decoded to 624485, the cursor advanced
\* by 3.
UnsignedLebVector ==
    /\ status = "decoded" /\ host.kind = "uleb" /\ host.k = 3
    /\ SubSeq(wasm, host.at + 1, host.at + 3) = <<229, 142, 38>>
    /\ host.got = BitsOfCell(<<101, 135, 9, 0, 0, 0, 0, 0>>)
    /\ host.idx = host.at + 3

\* C22: for every signed 64-bit integer n with an SLEB128 encoding of k
\* bytes, wasmbox_parse_signed_leb128 returns n and advances the cursor by
\* exactly k, for negative values of every encoding length from 1 to 10
\* bytes and for non-negative values.
SignedLebDecodes ==
    (status = "decoded" /\ host.kind = "sleb") =>
        host.got = host.n /\ host.idx = host.at + host.k

\* C23: wasmbox_module_dispose releases all the memory the module owns: once
\* a module was loaded, evaluated and disposed of, the bytes the allocator
\* counted as allocated equal the bytes it counted as freed, and
\* wasmbox_allocator_report_statics returns instead of exiting with an error.
DisposeReleasesAll ==
    status \in {"killed", "exited", "checked"} /\ "allocated" \in DOMAIN host
        => /\ status = "checked"
           /\ host.allocated = host.freed

StraightLineRefines ==
    host.kind = "straight" /\ status = "done" =>
        LET body == wasm[1].body
            \* the reference machine after the first i instructions: its
            \* operand stack (top last) and its local 0
            ref[i \in 0..(Len(body) - 1)] ==
                IF i = 0 THEN [ops |-> <<>>, local |-> Low(host.args[1], 4)]
                ELSE LET m == ref[i - 1]
                         t == body[i]
                         n == Len(m.ops)
                     IN  CASE t.k = "i32.const" ->
                                [m EXCEPT !.ops = Append(@, <<t.bytes[1], 0, 0, 0>>)]
                           [] t.k = "local.get" ->
                                [m EXCEPT !.ops = Append(@, m.local)]
                           [] t.k = "local.set" ->
                                [ops |-> SubSeq(m.ops, 1, n - 1), local |-> m.ops[n]]
                           [] t.k = "drop" ->
                                [m EXCEPT !.ops = SubSeq(@, 1, n - 1)]
                           [] OTHER ->
                                [m EXCEPT !.ops =
                                    Append(SubSeq(@, 1, n - 2),
                                           Arith32(t.op, m.ops[n - 1], m.ops[n]))]
            top == ref[Len(body) - 1].ops
        IN  Low(stack[0], 4) = top[Len(top)]

\* C27: for `call f` where f takes A >= 1 arguments, the value the caller
\* pushed i-th (the first pushed is argument 0) is the value the callee
\* finds in its slot FUNCTION_CALL_OFFSET + i, for every i < A, and the
\* STATIC_CALL emitted carries the return count of f in op2.  The caller
\* pushes 10, 20, ..., 10 * A.
CallPassesArguments ==
    host.kind = "call" /\ status \in {"loaded", "run", "done"} =>
        LET caller == mod.functions[1].code
            callee == mod.functions[2].type
        IN  /\ \A k \in DOMAIN caller :
                   caller[k].op = "STATIC_CALL" =>
                       caller[k].op2 = callee.return_size
            /\ status = "run" /\ pc = CodeAddr(1, 0) =>
                   \A i \in 0..(callee.argument_size - 1) :
                       stack[fp + WASMBOX_FUNCTION_CALL_OFFSET + i]
                           = CellOfNat(10 * (i + 1))

\* C28: a lowered `if ... else ... end` runs exactly one of its two
\* bodies, the then-body when the condition popped is nonzero and the
\* else-body otherwise, and goes on after the `end` in both cases.  In
\* `local.get 0; if 11 -> local 1 else 22 -> local 2 end; i32.const 5; end`
\* the local of the body not taken stays 0 and the function returns 5.
IfRunsOneBranch ==
    host.kind = "if" /\ status = "done" =>
        LET taken  == Low(host.args[1], 4) # <<0, 0, 0, 0>>
            frame  == mod.functions[1].type.return_size
            local(x) == stack[frame + WASMBOX_FUNCTION_CALL_OFFSET + x]
        IN  /\ local(1) = IF taken THEN CellOfNat(11) ELSE ZeroCell
            /\ local(2) = IF taken THEN ZeroCell ELSE CellOfNat(22)
            /\ stack[0] = CellOfNat(5)

\* C29: a Wasm `return` of a function with a return value is lowered to a
\* MOVE of the top operand into slot -1 followed by a RETURN, so that a
\* `return` in the middle of a body goes back to the caller and no later
\* instruction of the body executes.  For `i32.const 7; return;
\* i32.const 9; end` the second and third instructions are that MOVE and
\* RETURN, the run returns 7, and the slot of the constant 9 is never
\* written.
ReturnLeavesFunction ==
    host.kind = "return" /\ status \in {"loaded", "run", "done"} =>
        LET func  == mod.functions[1]
            first == WASMBOX_FUNCTION_CALL_OFFSET     \* the slot of the 7
        IN  /\ Len(func.code) >= 3
            /\ func.code[2].op = "MOVE"
            /\ func.code[2].op1 = first /\ func.code[2].op0 = 0 - 1
            /\ func.code[3].op = "RETURN"
            /\ stack[func.type.return_size + first + 1] = ZeroCell
            /\ status = "done" => stack[0] = host.value

\* C30: a lowered unary instruction takes as its source the slot on top of
\* the operand stack, the one written by the most recent producer not yet
\* consumed, and writes its result to a newly allocated slot.  In
\* `i32.const 9; f32.reinterpret_i32; end` (alone, or after an
\* `i32.const 5`) the source of the F32_REINTERPRET_I32 is the slot of the
\* 9, its destination the slot above it, and the function returns the bits
\* of 9.
UnaryReadsTop ==
    host.kind = "unary" /\ status \in {"loaded", "run", "done"} =>
        LET code == mod.functions[1].code
            k    == CHOOSE j \in DOMAIN code : code[j].op = "F32_REINTERPRET_I32"
        IN  /\ code[k].op1 = code[k - 1].op0
            /\ code[k].op0 = code[k - 1].op0 + 1
            /\ status = "done" => stack[0] = host.value

\* C31: `global.set i` with the operand v writes v to globals[i] and changes
\* no other global, and a later `global.get i` yields v in a new slot, for
\* every valid index i.  In `i32.const 9; global.set i; global.get i; end`,
\* run on globals initialised to 21, 22, ..., the run stays within the
\* globals, ends with globals[i] = 9 and every other global as initialised,
\* and returns 9.
GlobalSetThenGet ==
    host.kind = "globalops" =>
        LET i == wasm.sections[2].funcs[1].body[2].x
        IN  /\ status = "killed" => "freed" \in DOMAIN host  \* not before dispose
            /\ status = "done" =>
                  /\ \A j \in DOMAIN mod.globals :
                        mod.globals[j] = IF j = i + 1 THEN CellOfNat(9)
                                         ELSE CellOfNat(20 + j)
                  /\ stack[0] = CellOfNat(9)

\* C32: narrow stores truncate.  I32_STORE8 and I64_STORE8 at offset o
\* change only byte o of the memory, to the low 8 bits of the operand,
\* I32_STORE16 and I64_STORE16 only bytes o .. o+1, I64_STORE32 only bytes
\* o .. o+3; every other byte keeps its value.  The memory holds 01 in the
\* bytes o .. o+7 (an i64.store) when the operand 0x07561234 is stored.
NarrowStoresTruncate ==
    host.kind = "narrow" /\ status = "done" =>
        LET body == wasm.sections[2].funcs[1].body
            o    == body[4].x
            w    == MemoryOps[body[4].op].w
            v    == <<52, 18, 86, 7>>
            byte(a) == IF a \in DOMAIN memory.data THEN memory.data[a] ELSE 0
        IN  \A a \in 0..(o + 15) :
                byte(a) = IF a \in o..(o + w - 1) THEN v[a - o + 1]
                          ELSE IF a \in o..(o + 7) THEN 1
                          ELSE 0

\* C33: `memory.grow` is lowered to a MEMORY_GROW whose source operand is
\* the slot on top of the operand stack and whose destination is a new slot;
\* `memory.size` is lowered to a MEMORY_SIZE with a new slot as destination.
\* In `i32.const n; memory.grow; memory.size; end`, the second instruction
\* is the MEMORY_GROW, from the slot of the constant, and the third the
\* MEMORY_SIZE.
MemoryGrowLowered ==
    host.kind = "grow" /\ status \in {"loaded", "run", "done"} =>
        LET code == mod.functions[1].code
        IN  /\ code[2].op = "MEMORY_GROW"
            /\ code[2].op1 = code[1].op0
            /\ code[2].op0 = code[1].op0 + 1
            /\ code[3].op = "MEMORY_SIZE"
            /\ code[3].op0 = code[2].op0 + 1

\* C34: a module in which the declared size of a section reaches beyond
\* the end of the file, a custom section that is only skipped included, is
\* rejected: the loader never returns 0 for it.
TruncatedRejected ==
    host.kind = "stream" /\ host.truncated => status # "loaded"

\* C38: every iteration of the section loop leaves the 32-bit cursor
\* strictly greater than it found it, whatever size the section declares.
CursorAdvances ==
    [][status = "sections" /\ status' = "sections"
          => LtU32(host.index, host'.index)]_vars

\* C35: the value the host writes with WASMBOX_ADD_ARGUMENT(stack, i, ...)
\* is the value _start reads as its parameter i, whatever the number of
\* results of _start: after the MOVE of local.get i the destination holds
\* the i-th argument.
ArgumentIsParameter ==
    (host.kind = "params" /\ status = "run" /\ pc = CodeAddr(0, 1))
        => stack[fp + Fetch(CodeAddr(0, 0)).op0] = host.value

\* C36: a call of a function with no result changes no cell of the caller
\* below the callee's frame: when f() has returned to _start, the argument
\* of _start and the operand 7 it pushed before the call, in the cell just
\* below the frame of f, hold what they held when the call was dispatched.
VoidCallKeepsCaller ==
    (/\ host.kind = "voidcall" /\ status = "run"
     /\ lastret.valid /\ pc = lastret.due_pc /\ fp = lastret.due_fp)
        => /\ stack[fp + WASMBOX_FUNCTION_CALL_OFFSET] = host.args[1]
           /\ Low(stack[fp + Fetch(pc - 1).op0 - 1], 4) = Low(host.value, 4)

CodeAddInBuffer ==
    (host.kind = "codeadd" /\ status = "adding") =>
        /\ host.code_size <= host.code_capacity
        /\ host.kept = host.code_size

\* C40: neither decoder reads a byte at a position >= len or leaves the
\* cursor behind len: each byte read moves the cursor by one, so the cursor
\* is at most len after the call, also when it was at len before the call
\* or the last byte of the buffer has the continuation bit.
LebStaysInBuffer ==
    (host.kind \in {"uleb", "sleb", "ucut", "scut"} /\ status = "decoded")
        => host.idx <= host.len

=============================================================================
